---- MODULE Spec2Model ----
(***************************************************************************)
(* LevelZap (levelzap.py): flatten engine, cleanup engines, action log     *)
(* with integrity hash, and the revert engine, over a small POSIX          *)
(* filesystem.                                                             *)
(*                                                                         *)
(* A name is a tuple: a base string followed by the integers that          *)
(* resolve_conflict_path appended ("x_1_2.txt" is <<"x", 1, 2>>; the       *)
(* extension is the same for every name and is left out).  A path is the   *)
(* sequence of names below the root; the root is the empty path.           *)
(***************************************************************************)
EXTENDS Integers, Sequences, FiniteSets, TLC

\* ------------------------------------------------------------------ bounds
MaxFiles == 2       \* files in the initial tree
MaxDirs == 1        \* directories of the initial tree beyond the parents of its files
MaxClock == 1       \* the clock reads 0 .. MaxClock seconds
MaxRuns == 1        \* flatten and cleanup runs started in one behaviour
MaxReverts == 1     \* revert and revert-all invocations in one behaviour of Spec
MaxRevertsLog == 2  \* revert and revert-all invocations in one behaviour of SpecLog
MaxEdits == 1       \* edits of log files made by the user in one behaviour of SpecLog
MaxFilesNames == 4  \* files in the initial tree of SpecNames
MaxRunsTwice == 2   \* flatten and cleanup runs started in one behaviour of SpecTwice
MaxRunsAll == 2     \* flatten runs started in one behaviour of SpecAll
MaxFilesStat == 3   \* files in the initial tree of SpecStat

\* ------------------------------------------------------------------ names and paths
NA == <<"a">>
NB == <<"b">>
ND == <<"d">>
NX == <<"x">>
NX1 == <<"x", 1>>
LogBase == "levelzap.log"

Root == << >>
NoPath == << <<"-">> >>

Parent(p) == SubSeq(p, 1, Len(p) - 1)
BaseName(p) == p[Len(p)]
Join(p, n) == Append(p, n)
IsPrefix(p, q) == Len(p) <= Len(q) /\ SubSeq(q, 1, Len(p)) = p
IsLogName(n) == n[1] = LogBase
IsLogPath(p) == Len(p) = 1 /\ IsLogName(p[1])

\* get_log_filename: the name carries the epoch second and nothing else
LogFileName(sec) == <<LogBase, sec>>
LogPath(sec) == <<LogFileName(sec)>>

\* ------------------------------------------------------------------ filesystem
\* fs maps every existing path below the root to its node; the root always exists.
DirNode == [kind |-> "dir", id |-> 0, size |-> 0, mtime |-> 0]
FileNode(i, s, m) == [kind |-> "file", id |-> i, size |-> s, mtime |-> m]
LogNode == [kind |-> "file", id |-> 0, size |-> 1, mtime |-> 0]

Exists(f, p) == p = Root \/ p \in DOMAIN f
IsDir(f, p) == p = Root \/ (p \in DOMAIN f /\ f[p].kind = "dir")
IsFile(f, p) == p \in DOMAIN f /\ f[p].kind = "file"
Children(f, p) == {q \in DOMAIN f : Len(q) = Len(p) + 1 /\ IsPrefix(p, q)}
Subtree(f, p) == {q \in DOMAIN f : IsPrefix(p, q)}

Restrict(f, S) == [q \in S |-> f[q]]
Put(f, p, node) == [q \in DOMAIN f \cup {p} |-> IF q = p THEN node ELSE f[q]]
Rebase(q, src, dst) == dst \o SubSeq(q, Len(src) + 1, Len(q))

\* os.rename / os.replace on POSIX: [ok, fs]
RenameOk(f, src, dst) ==
    /\ src # Root /\ dst # Root
    /\ Exists(f, src)
    /\ IsDir(f, Parent(dst))
    /\ \/ src = dst
       \/ /\ ~IsPrefix(src, dst)
          /\ \/ ~Exists(f, dst)
             \/ IsFile(f, src) /\ IsFile(f, dst)
             \/ IsDir(f, src) /\ IsDir(f, dst) /\ Children(f, dst) = {}

Rename(f, src, dst) ==
    IF ~RenameOk(f, src, dst) THEN [ok |-> FALSE, fs |-> f]
    ELSE IF src = dst THEN [ok |-> TRUE, fs |-> f]
    ELSE LET moved == Subtree(f, src)
             keep == (DOMAIN f \ moved) \ {dst}
             new == {Rebase(q, src, dst) : q \in moved}
         IN [ok |-> TRUE,
             fs |-> [q \in keep \cup new |->
                       IF q \in new THEN f[Rebase(q, dst, src)] ELSE f[q]]]

\* Path.mkdir(parents=True, exist_ok=True): fails when a component is a file
Prefixes(p) == {SubSeq(p, 1, k) : k \in 1..Len(p)}
MkdirP(f, p) ==
    IF \E q \in Prefixes(p) : IsFile(f, q) THEN [ok |-> FALSE, fs |-> f]
    ELSE [ok |-> TRUE,
          fs |-> [q \in DOMAIN f \cup Prefixes(p) |->
                    IF q \in DOMAIN f THEN f[q] ELSE DirNode]]

\* Path.rmdir: the directory must be empty
Rmdir(f, p) ==
    IF p # Root /\ IsDir(f, p) /\ Children(f, p) = {}
    THEN [ok |-> TRUE, fs |-> Restrict(f, DOMAIN f \ {p})]
    ELSE [ok |-> FALSE, fs |-> f]

\* Path.unlink
Unlink(f, p) ==
    IF IsFile(f, p)
    THEN [ok |-> TRUE, fs |-> Restrict(f, DOMAIN f \ {p})]
    ELSE [ok |-> FALSE, fs |-> f]

\* shutil.rmtree: the target must be a directory
Rmtree(f, p) ==
    IF p # Root /\ IsDir(f, p)
    THEN [ok |-> TRUE, fs |-> Restrict(f, DOMAIN f \ Subtree(f, p))]
    ELSE [ok |-> FALSE, fs |-> f]

\* a touch that only updates entries that exist
Touch_ExistingOnly(f, p, m) ==
    IF p = Root THEN [ok |-> TRUE, fs |-> f]
    ELSE IF Exists(f, p) THEN [ok |-> TRUE, fs |-> [f EXCEPT ![p].mtime = m]]
    ELSE [ok |-> TRUE, fs |-> f]
\* Path.touch: creates an empty file, or sets the modification time of an
\* existing entry
Touch(f, p, m) ==
    IF p = Root THEN [ok |-> TRUE, fs |-> f]
    ELSE IF Exists(f, p) THEN [ok |-> TRUE, fs |-> [f EXCEPT ![p].mtime = m]]
    ELSE IF IsDir(f, Parent(p)) THEN [ok |-> TRUE, fs |-> Put(f, p, FileNode(0, 0, m))]
    ELSE [ok |-> FALSE, fs |-> f]

\* ------------------------------------------------------------------ enumeration order
\* os.scandir returns the entries of a directory in an order the filesystem
\* chooses.  The model fixes one order per behaviour: ascending or descending
\* in the order of names below.
BaseRank(s) ==
    CASE s = "a" -> 1 [] s = "b" -> 2 [] s = "d" -> 3 [] s = "x" -> 4 [] OTHER -> 5

RECURSIVE IntSeqLT(_, _)
IntSeqLT(s, t) ==
    IF s = << >> THEN t # << >>
    ELSE IF t = << >> THEN FALSE
    ELSE IF s[1] # t[1] THEN s[1] < t[1]
    ELSE IntSeqLT(Tail(s), Tail(t))

NameKey(n) == <<BaseRank(n[1])>> \o Tail(n)
NameLT(a, b) == IntSeqLT(NameKey(a), NameKey(b))

RECURSIVE PathLT(_, _)
PathLT(p, q) ==
    IF p = << >> THEN q # << >>
    ELSE IF q = << >> THEN FALSE
    ELSE IF p[1] # q[1] THEN NameLT(p[1], q[1])
    ELSE PathLT(Tail(p), Tail(q))

Before(p, q, dir) == IF dir = "fwd" THEN PathLT(p, q) ELSE PathLT(q, p)

RECURSIVE SeqOf(_, _)
SeqOf(S, dir) ==
    IF S = {} THEN << >>
    ELSE LET m == CHOOSE x \in S : \A y \in S \ {x} : Before(x, y, dir)
         IN <<m>> \o SeqOf(S \ {m}, dir)

RECURSIVE Concat(_)
Concat(ss) == IF ss = << >> THEN << >> ELSE ss[1] \o Concat(Tail(ss))

RECURSIVE SelectSeqP(_, _, _)
SelectSeqP(s, f, kind) ==
    IF s = << >> THEN << >>
    ELSE (IF f[s[1]].kind = kind THEN <<s[1]>> ELSE << >>) \o SelectSeqP(Tail(s), f, kind)

\* Path.iterdir
IterDir(f, p, dir) == SeqOf(Children(f, p), dir)

\* Path.rglob('*'): the entries of a directory, then those of each of its
\* subdirectories, depth first
RECURSIVE RGlob(_, _, _)
RGlob(f, p, dir) ==
    LET kids == IterDir(f, p, dir)
        subs == SelectSeqP(kids, f, "dir")
    IN kids \o Concat([k \in 1..Len(subs) |-> RGlob(f, subs[k], dir)])

\* ------------------------------------------------------------------ conflict resolution
\* resolve_conflict_path: the path itself when free, else base_i for the least
\* free i; "occupied" is on disk or in the claimed set
PathWouldExist(f, claimed, p) == Exists(f, p) \/ p \in claimed

\* a search for a free name that looks at the disk only
RECURSIVE FirstFree_DiskOnly(_, _, _, _)
FirstFree_DiskOnly(f, claimed, path, i) ==
    LET new == Join(Parent(path), Append(BaseName(path), i))
    IN IF ~Exists(f, new) THEN new
       ELSE FirstFree_DiskOnly(f, claimed, path, i + 1)
RECURSIVE FirstFree(_, _, _, _)
FirstFree(f, claimed, path, i) ==
    LET new == Join(Parent(path), Append(BaseName(path), i))
    IN IF ~PathWouldExist(f, claimed, new) THEN new
       ELSE FirstFree(f, claimed, path, i + 1)

\* a resolution that answers the contested path itself
resolve_conflict_path_Keep(f, path, claimed) == path
\* a resolver that numbers from the occupied name without probing the result
resolve_conflict_path_NoProbe(f, path, claimed) ==
    IF ~PathWouldExist(f, claimed, path) THEN path
    ELSE Join(Parent(path), Append(BaseName(path), 0))
resolve_conflict_path(f, path, claimed) ==
    IF ~PathWouldExist(f, claimed, path) THEN path
    ELSE FirstFree(f, claimed, path, 1)

Comparison == {"newest", "oldest", "largest", "smallest"}

\* Path.stat() of the entry raises OSError: such an entry carries the
\* attributes of Unreadable
Unreadable == [size |-> -1, mtime |-> -1]
StatFails(node) == node.size < 0
Strategies == {"overwrite", "rename"} \cup Comparison

\* a comparison that keeps the occupant only when it is strictly more extreme
KeepExisting_Strict(strategy, e, n) ==
    CASE strategy = "newest" -> e.mtime > n.mtime
      [] strategy = "oldest" -> e.mtime < n.mtime
      [] strategy = "largest" -> e.size > n.size
      [] strategy = "smallest" -> e.size < n.size
\* keep_existing of resolve_duplicate_file
KeepExisting(strategy, e, n) ==
    CASE strategy = "newest" -> e.mtime >= n.mtime
      [] strategy = "oldest" -> e.mtime <= n.mtime
      [] strategy = "largest" -> e.size >= n.size
      [] strategy = "smallest" -> e.size <= n.size

\* resolve_duplicate_file: NoPath stands for None (skip); when a stat call
\* raises OSError the answer is that of the rename strategy
resolve_duplicate_file(f, existing, new, strategy) ==
    IF strategy = "overwrite" THEN new
    ELSE IF strategy = "rename" THEN resolve_conflict_path(f, existing, {})
    ELSE IF StatFails(f[existing]) \/ StatFails(f[new]) THEN resolve_conflict_path(f, existing, {})
    ELSE IF KeepExisting(strategy, f[existing], f[new]) THEN NoPath
    ELSE existing

\* a comparison that lets a later file take the place of an equal best
Better_OrEqual(strategy, c, b) ==
    CASE strategy = "newest" -> c.mtime >= b.mtime
      [] strategy = "oldest" -> c.mtime <= b.mtime
      [] strategy = "largest" -> c.size >= b.size
      [] strategy = "smallest" -> c.size <= b.size
\* the winner of a group under a comparison strategy: the first file that is
\* strictly more extreme than the best so far; a comparison whose stat calls
\* raise leaves the best as it is
Better(strategy, c, b) ==
    CASE strategy = "newest" -> c.mtime > b.mtime
      [] strategy = "oldest" -> c.mtime < b.mtime
      [] strategy = "largest" -> c.size > b.size
      [] strategy = "smallest" -> c.size < b.size

RECURSIVE BestFile(_, _, _, _)
BestFile(f, strategy, best, rest) ==
    IF rest = << >> THEN best
    ELSE BestFile(f, strategy,
                  IF /\ ~StatFails(f[best]) /\ ~StatFails(f[rest[1]])
                     /\ Better(strategy, f[rest[1]], f[best])
                  THEN rest[1] ELSE best,
                  Tail(rest))

\* ------------------------------------------------------------------ executor
Entry(type, src, dst, conflict, strategy, chosen, ts) ==
    [action |-> type, timestamp |-> ts, source |-> src, destination |-> dst,
     original_conflict |-> conflict, strategy |-> strategy, chosen_from |-> chosen]

\* the physical effect of perform_action: [ok, fs]
Effect(f, type, src, dst) ==
    CASE type \in {"move", "move_renamed"} ->
           LET m == MkdirP(f, Parent(dst))
           IN IF m.ok THEN Rename(m.fs, src, dst) ELSE m
      [] type = "overwrite_file" -> Rename(f, src, dst)
      [] type = "overwrite_folder" ->
           LET r == Rmtree(f, dst)
           IN IF r.ok THEN Rename(r.fs, src, dst) ELSE r
      [] type \in {"delete_folder", "delete_empty_folder"} -> Rmdir(f, src)
      [] type = "delete_zero_file" -> Unlink(f, src)

\* the event perform_action sends to the sink when the effect fails
FailEvent(type) ==
    IF type \in {"delete_folder", "delete_empty_folder", "delete_zero_file"}
    THEN "warning" ELSE "error"

\* an executor that puts the new entry in front of the entries logged so far
perform_action_Prepend(st, simulate, e) ==
    LET r == Effect(st.fs, e.action, e.source, e.destination)
    IN [fs |-> IF simulate THEN st.fs ELSE r.fs,
        actions |-> <<e>> \o st.actions,
        sink |-> IF simulate \/ r.ok THEN st.sink ELSE Append(st.sink, FailEvent(e.action)),
        failed |-> IF simulate \/ r.ok THEN st.failed ELSE st.failed \cup {Len(st.actions) + 1}]
\* an executor that records an action only once its effect has succeeded
perform_action_LogOnSuccess(st, simulate, e) ==
    LET r == Effect(st.fs, e.action, e.source, e.destination)
    IN [fs |-> IF simulate THEN st.fs ELSE r.fs,
        actions |-> IF simulate \/ r.ok THEN Append(st.actions, e) ELSE st.actions,
        sink |-> IF simulate \/ r.ok THEN st.sink ELSE Append(st.sink, FailEvent(e.action)),
        failed |-> IF simulate \/ r.ok THEN st.failed ELSE st.failed \cup {Len(st.actions) + 1}]
\* perform_action: append the entry, then (unless simulating) the effect
perform_action(st, simulate, e) ==
    LET r == Effect(st.fs, e.action, e.source, e.destination)
    IN [fs |-> IF simulate THEN st.fs ELSE r.fs,
        actions |-> Append(st.actions, e),
        sink |-> IF simulate \/ r.ok THEN st.sink ELSE Append(st.sink, FailEvent(e.action)),
        failed |-> IF simulate \/ r.ok THEN st.failed ELSE st.failed \cup {Len(st.actions) + 1}]

\* ------------------------------------------------------------------ action log file
LEVELZAP_VERSION == "0.4"

\* a JSON object is a sequence of <<key, value>> pairs in insertion order
MetaHas(meta, key) == \E k \in 1..Len(meta) : meta[k][1] = key
MetaGet(meta, key) == meta[CHOOSE k \in 1..Len(meta) : meta[k][1] = key][2]
MetaPop(meta, key) == SelectSeq(meta, LAMBDA kv : kv[1] # key)

\* a dump that leaves the actions out of the hashed text
JsonDumps_MetaOnly(meta, acts) == <<"json", meta, << >> >>
\* json.dumps(..., indent=2): the canonical text of {meta, actions}
JsonDumps(meta, acts) == <<"json", meta, acts>>
\* hashlib.sha256(...).hexdigest(), taken as collision-free
Sha256(text) == <<"sha256", text>>

\* the meta each run kind writes, before the hash is added
FlattenMeta(ts, simulate, recurse, strategy) ==
    << <<"version", LEVELZAP_VERSION>>, <<"log_timestamp", ts>>,
       <<"simulated", simulate>>, <<"recursive", recurse>>,
       <<"duplicate_strategy", strategy>> >>
CleanupMeta(ts, simulate, recurse, operation) ==
    << <<"version", LEVELZAP_VERSION>>, <<"log_timestamp", ts>>,
       <<"simulated", simulate>>, <<"recursive", recurse>>,
       <<"operation", operation>> >>

\* a writer that takes the hash after the hash key is already in meta
LogFile_HashAfterStore(meta, acts) ==
    [shape |-> "dict",
     meta |-> Append(meta, <<"hash", Sha256(JsonDumps(Append(meta, <<"hash", "">>), acts))>>),
     actions |-> acts]
\* the file written at the end of a run: the hash is taken over the dump of
\* {meta, actions} and then stored as the last key of meta
LogFile(meta, acts) ==
    [shape |-> "dict",
     meta |-> Append(meta, <<"hash", Sha256(JsonDumps(meta, acts))>>),
     actions |-> acts]
Garbage == [shape |-> "garbage", meta |-> << >>, actions |-> << >>]

\* the hash revert_log, verify_all_logs and list_logs recompute over the loaded file
ComputedHash(c) == Sha256(JsonDumps(MetaPop(c.meta, "hash"), c.actions))
StoredHash(c) == IF MetaHas(c.meta, "hash") THEN MetaGet(c.meta, "hash") ELSE <<"none">>
HashMatches(c) == StoredHash(c) = ComputedHash(c)
\* verify_all_logs: the verdict on one log file
VerifyPasses(c) == c.shape = "dict" /\ HashMatches(c)
\* log_data.get("meta", {}).get("simulated")
IsSimulatedLog(c) == MetaHas(c.meta, "simulated") /\ MetaGet(c.meta, "simulated") = TRUE

\* revert_log without its simulated gate
Gate_NoSimulatedGate(c) ==
    IF c.shape # "dict" THEN "unreadable"
    ELSE IF ~HashMatches(c) THEN "integrity"
    ELSE "passed"
\* revert_log without its integrity gate
Gate_NoIntegrityGate(c) ==
    IF c.shape # "dict" THEN "unreadable"
    ELSE IF IsSimulatedLog(c) THEN "simulated"
    ELSE "passed"
\* the gates of revert_log, in the order of the code
Gate(c) ==
    IF c.shape # "dict" THEN "unreadable"
    ELSE IF IsSimulatedLog(c) THEN "simulated"
    ELSE IF ~HashMatches(c) THEN "integrity"
    ELSE "passed"

\* ------------------------------------------------------------------ state
VARIABLES
    fs,         \* the tree below the root
    logc,       \* the content of each log file at the root, by epoch second
    now,        \* the clock, in seconds
    scan,       \* the order in which the filesystem lists a directory
    pc,         \* "idle", "run" (flatten or cleanup walk), "load", "replay" (revert)
    run,        \* the arguments of the run in progress
    queue,      \* what the walk of the run in progress has left to do
    actions,    \* the action list of the run in progress
    claimed,    \* simulated_destinations of the run in progress
    sink,       \* warnings and errors sent to the output manager by the operation
    failed,     \* indexes of the actions whose physical effect failed
    pending,    \* log files the revert invocation has left to revert
    rv,         \* the revert_log call in progress
    last,       \* the outcome of the revert_log call that returned last, and the exit
                \* status of an invocation that ends after it
    budget,     \* how many runs, reverts and user edits the behaviour may still start
    hist        \* for each log file name: the run that wrote it

vars == <<fs, logc, now, scan, pc, run, queue, actions, claimed, sink, failed,
          pending, rv, last, budget, hist>>

Item(t, p, q, fl) == [t |-> t, p |-> p, q |-> q, fl |-> fl]
NoRun == [op |-> "none", simulate |-> FALSE, merge |-> FALSE, overwrite |-> FALSE,
          recurse |-> FALSE, strategy |-> "rename", log_file |-> 0, pre |-> << >>]
NoRv == [log |-> 0, keep |-> FALSE, acts |-> << >>, i |-> 1, fs0 |-> << >>,
         skipped |-> 0, mutated |-> 0, clean |-> FALSE]
\* the exit status of main: 0 when it returns, 1 from sys.exit(1)
ExitOk == 0
ExitError == 1
NoLast == [outcome |-> "none", log |-> 0, keep |-> FALSE, fs0 |-> << >>,
           content0 |-> Garbage, skipped |-> 0, mutated |-> 0, clean |-> FALSE,
           visited |-> 0, status |-> ExitOk]

\* ------------------------------------------------------------------ initial trees
CandFiles == {<<NX>>, <<NA, NX>>, <<NB, NX>>, <<NA, ND, NX>>, <<ND, NX>>}
CandDirs == {<<NX>>, <<NX1>>, <<NA>>, <<ND>>, <<NA, ND>>}
\* (size, mtime) of a file: empty and old, or not empty and new
StatProfiles == {[size |-> 0, mtime |-> 1], [size |-> 1, mtime |-> 2]}

ProperPrefixes(p) == {SubSeq(p, 1, k) : k \in 1..(Len(p) - 1)}
WellFormed(F, D) ==
    \A p \in F : \A q \in F \cup D : p \notin ProperPrefixes(q) /\ (q \in D => p # q)
FileId(F, p) == 1 + Cardinality({q \in F : PathLT(q, p)})
Tree(F, D, attr) ==
    LET dirs == D \cup UNION {ProperPrefixes(p) : p \in F \cup D}
    IN [p \in F \cup dirs |->
          IF p \in F THEN FileNode(FileId(F, p), attr[p].size, attr[p].mtime)
          ELSE DirNode]

InitTree(files, dirs) ==
    \E F \in SUBSET files : \E D \in SUBSET dirs :
        /\ Cardinality(F) <= MaxFiles
        /\ Cardinality(D) <= MaxDirs
        /\ WellFormed(F, D)
        /\ \E attr \in [F -> StatProfiles] : fs = Tree(F, D, attr)

InitWith(files, dirs, b) ==
    /\ InitTree(files, dirs)
    /\ logc = << >>
    /\ now = 0
    /\ scan \in {"fwd", "rev"}
    /\ pc = "idle"
    /\ run = NoRun
    /\ queue = << >>
    /\ actions = << >>
    /\ claimed = {}
    /\ sink = << >>
    /\ failed = {}
    /\ pending = << >>
    /\ rv = NoRv
    /\ last = NoLast
    /\ budget = b
    /\ hist = << >>

Init == InitWith(CandFiles, CandDirs, [runs |-> MaxRuns, reverts |-> MaxReverts, edits |-> 0])

\* the trees of SpecLog
LogFiles == {<<NA, NX>>, <<NB, NX>>}
LogDirs == {<<NX>>}
InitLog ==
    /\ InitWith(LogFiles, LogDirs,
                [runs |-> MaxRuns, reverts |-> MaxRevertsLog, edits |-> MaxEdits])
    /\ scan = "fwd"

\* the trees of SpecNames: two folders whose files carry a name and the name
\* resolve_conflict_path derives from it
NameFiles == {<<NA, NX>>, <<NA, NX1>>, <<NB, NX>>, <<NB, NX1>>}
InitNames ==
    /\ \E F \in SUBSET NameFiles :
          /\ Cardinality(F) <= MaxFilesNames
          /\ fs = Tree(F, {}, [p \in F |-> [size |-> 1, mtime |-> 2]])
    /\ logc = << >> /\ now = 0 /\ scan \in {"fwd", "rev"} /\ pc = "idle"
    /\ run = NoRun /\ queue = << >> /\ actions = << >> /\ claimed = {}
    /\ sink = << >> /\ failed = {} /\ pending = << >> /\ rv = NoRv /\ last = NoLast
    /\ budget = [runs |-> MaxRuns, reverts |-> 0, edits |-> 0]
    /\ hist = << >>

\* SpecFair: one run on the trees of SpecLog, in either listing order
InitRun == InitWith(LogFiles, LogDirs, [runs |-> MaxRuns, reverts |-> 0, edits |-> 0])

\* SpecTwice: runs follow one another on the same root
InitTwice ==
    /\ InitWith(LogFiles, LogDirs, [runs |-> MaxRunsTwice, reverts |-> 0, edits |-> 0])
    /\ scan = "fwd"

\* ------------------------------------------------------------------ the walk of a run
Depth(p) == Len(p)
Dirs(f) == {p \in DOMAIN f : f[p].kind = "dir"}

\* a folder order that takes the shallowest folders first
RECURSIVE DeepestFirst_Shallowest(_, _, _)
DeepestFirst_Shallowest(S, d, dir) ==
    IF d = 0 THEN << >>
    ELSE DeepestFirst_Shallowest(S, d - 1, dir) \o SeqOf({p \in S : Depth(p) = d}, dir)
\* sorted(all_folders_to_delete, key=depth, reverse=True): among folders of one
\* depth the order is that of the set's iteration, here ascending or descending
RECURSIVE DeepestFirst(_, _, _)
DeepestFirst(S, d, dir) ==
    IF d = 0 THEN << >>
    ELSE SeqOf({p \in S : Depth(p) = d}, dir) \o DeepestFirst(S, d - 1, dir)
MaxDepth(S) == IF S = {} THEN 0 ELSE CHOOSE d \in {Depth(p) : p \in S} :
                                        \A p \in S : Depth(p) <= d

\* files_by_destination: the names in first-seen order
RECURSIVE FirstSeen(_, _)
FirstSeen(files, seen) ==
    IF files = << >> THEN << >>
    ELSE IF BaseName(files[1]) \in seen THEN FirstSeen(Tail(files), seen)
    ELSE <<BaseName(files[1])>> \o FirstSeen(Tail(files), seen \cup {BaseName(files[1])})

GroupOf(files, name) == SelectSeq(files, LAMBDA p : BaseName(p) = name)

\* the executor calls one group of same-named files leads to
GroupItems(fl, strategy) ==
    IF Len(fl) = 1 THEN <<Item("single", fl[1], NoPath, << >>)>>
    ELSE IF strategy \in Comparison THEN <<Item("best", fl[1], NoPath, fl)>>
    ELSE <<Item("first", fl[1], NoPath, << >>)>>
         \o [k \in 1..(Len(fl) - 1) |-> Item("next", fl[k + 1], NoPath, << >>)]

RecursiveQueue(f, dir, setdir, strategy) ==
    LET all_files == SelectSeqP(RGlob(f, Root, dir), f, "file")
        names == FirstSeen(all_files, {})
        folders == DeepestFirst(Dirs(f), MaxDepth(Dirs(f)), setdir)
    IN Concat([k \in 1..Len(names) |-> GroupItems(GroupOf(all_files, names[k]), strategy)])
       \o [k \in 1..Len(folders) |-> Item("rdel", folders[k], NoPath, << >>)]

\* a walk that stops after the first subfolder
OneLevelQueue_FirstOnly(f, dir) ==
    LET subfolders == SelectSeqP(IterDir(f, Root, dir), f, "dir")
    IN IF subfolders = << >> THEN << >>
       ELSE <<Item("folder", subfolders[1], NoPath, << >>)>>
OneLevelQueue(f, dir) ==
    LET subfolders == SelectSeqP(IterDir(f, Root, dir), f, "dir")
    IN [k \in 1..Len(subfolders) |-> Item("folder", subfolders[k], NoPath, << >>)]

\* flatten_folder, up to the start of its walk
FlattenStart(simulate, merge, overwrite, recurse, strategy, setdir) ==
    /\ pc = "idle" /\ budget.runs > 0
    /\ pc' = "run"
    /\ budget' = [budget EXCEPT !.runs = @ - 1]
    /\ run' = [op |-> "flatten", simulate |-> simulate, merge |-> merge,
               overwrite |-> overwrite, recurse |-> recurse, strategy |-> strategy,
               log_file |-> now, pre |-> fs]
    /\ queue' = IF recurse THEN RecursiveQueue(fs, scan, setdir, strategy)
                ELSE OneLevelQueue(fs, scan)
    /\ actions' = << >> /\ claimed' = {} /\ sink' = << >> /\ failed' = {}
    /\ last' = NoLast
    /\ UNCHANGED <<fs, logc, now, scan, pending, rv, hist>>

St == [fs |-> fs, actions |-> actions, sink |-> sink, failed |-> failed]
\* one executor call of the run in progress
Exec(type, src, dst, conflict, strategy, chosen) ==
    perform_action(St, run.simulate, Entry(type, src, dst, conflict, strategy, chosen, now))
Skip == St

\* one executor call on the run state st
ExecOn(st, simulate, ts, type, src, dst, conflict, strategy, chosen) ==
    perform_action(st, simulate, Entry(type, src, dst, conflict, strategy, chosen, ts))

\* the loop body of recursive mode for one queue item, on the run state st with
\* simulated_destinations cl: [st, claimed]
RecursiveItemOn(st, cl, r, ts, it) ==
    LET destination == <<BaseName(it.p)>>
        s == r.strategy
    IN CASE it.t = "single" ->
              IF Exists(st.fs, destination) /\ destination # it.p
              THEN LET resolved == resolve_duplicate_file(st.fs, destination, it.p, s)
                       warned == IF /\ s \in Comparison
                                    /\ StatFails(st.fs[destination]) \/ StatFails(st.fs[it.p])
                                 THEN [st EXCEPT !.sink = Append(@, "warning")] ELSE st
                   IN IF resolved = NoPath THEN [st |-> st, claimed |-> cl]
                      ELSE IF resolved = destination /\ s = "overwrite"
                      THEN [st |-> ExecOn(st, r.simulate, ts, "overwrite_file", it.p, destination, NoPath, "", << >>),
                            claimed |-> cl]
                      ELSE [st |-> ExecOn(warned, r.simulate, ts, "move_renamed", it.p, resolved, destination, s, << >>),
                            claimed |-> cl]
              ELSE [st |-> ExecOn(st, r.simulate, ts, "move", it.p, destination, NoPath, "", << >>),
                    claimed |-> cl \cup {destination}]
         [] it.t = "best" ->
              LET dest == <<BaseName(it.fl[1])>>
                  best == BestFile(st.fs, s, it.fl[1], Tail(it.fl))
              IN [st |-> ExecOn(st, r.simulate, ts, "move", best, dest, NoPath, s, it.fl),
                  claimed |-> cl \cup {dest}]
         [] it.t = "first" ->
              [st |-> ExecOn(st, r.simulate, ts, "move", it.p, destination, NoPath, "", << >>),
               claimed |-> cl \cup {destination}]
         [] it.t = "next" ->
              IF s = "overwrite"
              THEN [st |-> ExecOn(st, r.simulate, ts, "overwrite_file", it.p, destination, NoPath, "", << >>),
                    claimed |-> cl]
              ELSE LET renamed == resolve_conflict_path(st.fs, destination, cl)
                   IN [st |-> ExecOn(st, r.simulate, ts, "move_renamed", it.p, renamed, destination, s, << >>),
                       claimed |-> cl \cup {renamed}]
         [] it.t = "rdel" ->
              IF Exists(st.fs, it.p)
              THEN [st |-> ExecOn(st, r.simulate, ts, "delete_folder", it.p, NoPath, NoPath, "", << >>),
                    claimed |-> cl]
              ELSE [st |-> st, claimed |-> cl]

\* the loop body of one-level mode for one queue item, on the run state st:
\* [st, push], push being the items the body puts in front of the queue
OneLevelItemOn(st, r, dir, ts, it) ==
    LET destination == IF it.t = "sub" THEN Join(it.q, BaseName(it.p)) ELSE <<BaseName(it.p)>>
        subs(d, t, q) == [k \in 1..Len(IterDir(st.fs, d, dir)) |->
                            Item(t, IterDir(st.fs, d, dir)[k], q, << >>)]
    IN CASE it.t = "folder" ->
              IF IsDir(st.fs, it.p)
              THEN [st |-> st,
                    push |-> subs(it.p, "item", NoPath) \o <<Item("fdel", it.p, NoPath, << >>)>>]
              ELSE [st |-> [st EXCEPT !.sink = Append(@, "error")], push |-> << >>]
         [] it.t = "item" ->
              IF Exists(st.fs, destination)
              THEN IF IsDir(st.fs, destination) /\ IsDir(st.fs, it.p)
                   THEN IF r.merge
                        THEN [st |-> st,
                              push |-> subs(it.p, "sub", destination)
                                       \o <<Item("fdel", it.p, NoPath, << >>)>>]
                        ELSE IF r.overwrite
                        THEN [st |-> ExecOn(st, r.simulate, ts, "overwrite_folder", it.p, destination, NoPath, "", << >>),
                              push |-> << >>]
                        ELSE [st |-> ExecOn(st, r.simulate, ts, "move", it.p, resolve_conflict_path(st.fs, destination, {}),
                                          NoPath, "", << >>),
                              push |-> << >>]
                   ELSE IF IsFile(st.fs, destination) \/ IsFile(st.fs, it.p)
                   THEN IF r.overwrite
                        THEN [st |-> ExecOn(st, r.simulate, ts, "overwrite_file", it.p, destination, NoPath, "", << >>),
                              push |-> << >>]
                        ELSE [st |-> ExecOn(st, r.simulate, ts, "move_renamed", it.p,
                                          resolve_conflict_path(st.fs, destination, {}),
                                          destination, "", << >>),
                              push |-> << >>]
                   ELSE [st |-> ExecOn(st, r.simulate, ts, "move", it.p, destination, NoPath, "", << >>), push |-> << >>]
              ELSE [st |-> ExecOn(st, r.simulate, ts, "move", it.p, destination, NoPath, "", << >>), push |-> << >>]
         [] it.t = "sub" ->
              IF Exists(st.fs, destination)
              THEN IF r.overwrite
                   THEN [st |-> ExecOn(st, r.simulate, ts, "overwrite_file", it.p, destination, NoPath, "", << >>),
                         push |-> << >>]
                   ELSE [st |-> ExecOn(st, r.simulate, ts, "move", it.p, resolve_conflict_path(st.fs, destination, {}),
                                     NoPath, "", << >>),
                         push |-> << >>]
              ELSE [st |-> ExecOn(st, r.simulate, ts, "move", it.p, destination, NoPath, "", << >>), push |-> << >>]
         [] it.t = "fdel" ->
              [st |-> ExecOn(st, r.simulate, ts, "delete_folder", it.p, NoPath, NoPath, "", << >>), push |-> << >>]

\* the loop bodies on the state of the run in progress
RecursiveItem(it) == RecursiveItemOn(St, claimed, run, now, it)
OneLevelItem(it) == OneLevelItemOn(St, run, scan, now, it)

\* the whole walk of flatten_folder from the run state st: the action list at its end
RECURSIVE WalkOn(_, _, _, _, _, _)
WalkOn(st, cl, r, dir, ts, q) ==
    IF q = << >> THEN st.actions
    ELSE IF r.recurse
    THEN LET x == RecursiveItemOn(st, cl, r, ts, Head(q))
         IN WalkOn(x.st, x.claimed, r, dir, ts, Tail(q))
    ELSE LET x == OneLevelItemOn(st, r, dir, ts, Head(q))
         IN WalkOn(x.st, cl, r, dir, ts, x.push \o Tail(q))

\* the actions flatten_folder logs on the tree f
FlattenLog(f, r, dir, setdir, ts) ==
    WalkOn([fs |-> f, actions |-> << >>, sink |-> << >>, failed |-> {}], {}, r, dir, ts,
           IF r.recurse THEN RecursiveQueue(f, dir, setdir, r.strategy)
           ELSE OneLevelQueue(f, dir))

\* the loop body of the cleanup engines
CleanupItem(it) ==
    CASE it.t = "edel" -> Exec("delete_empty_folder", it.p, NoPath, NoPath, "", << >>)
      [] it.t = "zdel" -> Exec("delete_zero_file", it.p, NoPath, NoPath, "", << >>)

\* one iteration of the walk of flatten_folder
FlattenStep ==
    /\ pc = "run" /\ run.op = "flatten" /\ queue # << >>
    /\ LET it == Head(queue)
       IN IF run.recurse
          THEN LET r == RecursiveItem(it)
               IN /\ fs' = r.st.fs /\ actions' = r.st.actions /\ sink' = r.st.sink
                  /\ failed' = r.st.failed
                  /\ claimed' = r.claimed
                  /\ queue' = Tail(queue)
          ELSE LET r == OneLevelItem(it)
               IN /\ fs' = r.st.fs /\ actions' = r.st.actions /\ sink' = r.st.sink
                  /\ failed' = r.st.failed
                  /\ claimed' = claimed
                  /\ queue' = r.push \o Tail(queue)
    /\ UNCHANGED <<logc, now, scan, pc, run, pending, rv, last, budget, hist>>

\* all_dirs.sort(key=depth, reverse=True): stable, so rglob order within one depth
RECURSIVE StableDeepest(_, _)
StableDeepest(dirs, d) ==
    IF d = 0 THEN << >>
    ELSE SelectSeq(dirs, LAMBDA p : Depth(p) = d) \o StableDeepest(dirs, d - 1)

\* a candidate list that takes every directory examined, empty or not
EmptyFolders_Unfiltered(f, dir, recurse) ==
    LET rdirs == SelectSeqP(RGlob(f, Root, dir), f, "dir")
    IN IF recurse THEN StableDeepest(rdirs, MaxDepth(Dirs(f)))
       ELSE SelectSeqP(IterDir(f, Root, dir), f, "dir")
\* the candidates of remove_empty_folders that are empty when the run starts
EmptyFolders(f, dir, recurse) ==
    LET rdirs == SelectSeqP(RGlob(f, Root, dir), f, "dir")
        all_dirs == IF recurse THEN StableDeepest(rdirs, MaxDepth(Dirs(f)))
                    ELSE SelectSeqP(IterDir(f, Root, dir), f, "dir")
    IN SelectSeq(all_dirs, LAMBDA p : Children(f, p) = {})

\* a candidate list that, when not recursive, looks at the files of the root only
ZeroByteFiles_RootOnly(f, dir, recurse) ==
    LET all_files == IF recurse THEN SelectSeqP(RGlob(f, Root, dir), f, "file")
                     ELSE SelectSeqP(IterDir(f, Root, dir), f, "file")
    IN SelectSeq(all_files, LAMBDA p : f[p].size = 0)
\* the candidates of remove_zero_byte_files that have size zero
ZeroByteFiles(f, dir, recurse) ==
    LET top == IterDir(f, Root, dir)
        one(p) == IF f[p].kind = "file" THEN <<p>>
                  ELSE SelectSeqP(IterDir(f, p, dir), f, "file")
        all_files == IF recurse THEN SelectSeqP(RGlob(f, Root, dir), f, "file")
                     ELSE Concat([k \in 1..Len(top) |-> one(top[k])])
    IN SelectSeq(all_files, LAMBDA p : f[p].size = 0)

\* a cleanup engine without the early return: it goes on to write a log when
\* it found no candidate
CleanupStart_AlwaysLog(op, simulate, recurse) ==
    /\ pc = "idle" /\ budget.runs > 0
    /\ budget' = [budget EXCEPT !.runs = @ - 1]
    /\ LET found == IF op = "remove_empty_folders" THEN EmptyFolders(fs, scan, recurse)
                    ELSE ZeroByteFiles(fs, scan, recurse)
           tag == IF op = "remove_empty_folders" THEN "edel" ELSE "zdel"
       IN /\ pc' = "run"
          /\ run' = [op |-> op, simulate |-> simulate, merge |-> FALSE,
                     overwrite |-> FALSE, recurse |-> recurse, strategy |-> "",
                     log_file |-> now, pre |-> fs]
          /\ queue' = [k \in 1..Len(found) |-> Item(tag, found[k], NoPath, << >>)]
    /\ actions' = << >> /\ claimed' = {} /\ sink' = << >> /\ failed' = {}
    /\ last' = NoLast
    /\ UNCHANGED <<fs, logc, now, scan, pending, rv, hist>>
\* remove_empty_folders and remove_zero_byte_files, up to the start of the walk;
\* with no candidate the run returns at once and writes no log
CleanupStart(op, simulate, recurse) ==
    /\ pc = "idle" /\ budget.runs > 0
    /\ budget' = [budget EXCEPT !.runs = @ - 1]
    /\ LET found == IF op = "remove_empty_folders" THEN EmptyFolders(fs, scan, recurse)
                    ELSE ZeroByteFiles(fs, scan, recurse)
           tag == IF op = "remove_empty_folders" THEN "edel" ELSE "zdel"
       IN IF found = << >>
          THEN /\ pc' = "idle" /\ run' = NoRun /\ queue' = << >>
          ELSE /\ pc' = "run"
               /\ run' = [op |-> op, simulate |-> simulate, merge |-> FALSE,
                          overwrite |-> FALSE, recurse |-> recurse, strategy |-> "",
                          log_file |-> now, pre |-> fs]
               /\ queue' = [k \in 1..Len(found) |-> Item(tag, found[k], NoPath, << >>)]
    /\ actions' = << >> /\ claimed' = {} /\ sink' = << >> /\ failed' = {}
    /\ last' = NoLast
    /\ UNCHANGED <<fs, logc, now, scan, pending, rv, hist>>

\* one iteration of the removal loop of a cleanup engine
CleanupStep ==
    /\ pc = "run" /\ run.op # "flatten" /\ queue # << >>
    /\ LET st == CleanupItem(Head(queue))
       IN /\ fs' = st.fs /\ actions' = st.actions /\ sink' = st.sink /\ failed' = st.failed
    /\ queue' = Tail(queue)
    /\ UNCHANGED <<logc, now, scan, pc, run, claimed, pending, rv, last, budget, hist>>

RunMeta(r, ts) ==
    IF r.op = "flatten" THEN FlattenMeta(ts, r.simulate, r.recurse, r.strategy)
    ELSE CleanupMeta(ts, r.simulate, r.recurse, r.op)

\* a log write that does not wait for the walk to end
WriteLog_MidWalk ==
    /\ pc = "run"
    /\ LET content == LogFile(RunMeta(run, now), actions)
           after == Put(fs, LogPath(run.log_file), LogNode)
       IN /\ fs' = after
          /\ logc' = Put(logc, run.log_file, content)
          /\ hist' = Put(hist, run.log_file,
                         [run |-> run, post |-> after, content |-> content,
                          failed |-> failed, reverts |-> 0])
    /\ pc' = "idle" /\ run' = NoRun /\ actions' = << >> /\ claimed' = {} /\ failed' = {}
    /\ queue' = << >>
    /\ UNCHANGED <<now, scan, sink, pending, rv, last, budget>>
\* the end of a run: the log file is written, once, under the name taken at the start
WriteLog ==
    /\ pc = "run" /\ queue = << >>
    /\ LET content == LogFile(RunMeta(run, now), actions)
           after == Put(fs, LogPath(run.log_file), LogNode)
       IN /\ fs' = after
          /\ logc' = Put(logc, run.log_file, content)
          /\ hist' = Put(hist, run.log_file,
                         [run |-> run, post |-> after, content |-> content,
                          failed |-> failed, reverts |-> 0])
    /\ pc' = "idle" /\ run' = NoRun /\ actions' = << >> /\ claimed' = {} /\ failed' = {}
    /\ UNCHANGED <<now, scan, queue, sink, pending, rv, last, budget>>

\* a second passes between two operations
Tick ==
    /\ pc = "idle" /\ now < MaxClock
    /\ now' = now + 1
    /\ UNCHANGED <<fs, logc, scan, pc, run, queue, actions, claimed, sink, failed,
                   pending, rv, last, budget, hist>>

\* ------------------------------------------------------------------ the user edits a log file
EditKinds == {"garbage", "hash", "meta", "field", "drop", "add", "swap"}
OtherPath(p) == IF p = <<NA>> THEN <<NB>> ELSE <<NA>>
EditValue(kv) ==
    IF kv[1] \in {"simulated", "recursive"} THEN ~kv[2]
    ELSE IF kv[1] = "log_timestamp" THEN kv[2] + 1
    ELSE "edited"
RemoveAt(s, i) == SubSeq(s, 1, i - 1) \o SubSeq(s, i + 1, Len(s))
Swap(s, i) == [k \in 1..Len(s) |-> IF k = i THEN s[i + 1] ELSE IF k = i + 1 THEN s[i] ELSE s[k]]
Edited(c, kind, i, field) ==
    CASE kind = "garbage" -> Garbage
      [] kind = "hash" ->
           [c EXCEPT !.meta = [k \in 1..Len(c.meta) |->
                IF c.meta[k][1] = "hash" THEN <<"hash", Sha256(JsonDumps(<< >>, << >>))>>
                ELSE c.meta[k]]]
      [] kind = "meta" -> [c EXCEPT !.meta[i] = <<c.meta[i][1], EditValue(c.meta[i])>>]
      [] kind = "field" ->
           IF field = "action"
           THEN [c EXCEPT !.actions[i].action =
                    IF @ = "move" THEN "move_renamed" ELSE "move"]
           ELSE IF field = "source"
           THEN [c EXCEPT !.actions[i].source = OtherPath(@)]
           ELSE [c EXCEPT !.actions[i].destination = OtherPath(@)]
      [] kind = "drop" -> [c EXCEPT !.actions = RemoveAt(@, i)]
      [] kind = "add" -> [c EXCEPT !.actions = Append(@, c.actions[i])]
      [] kind = "swap" -> [c EXCEPT !.actions = Swap(@, i)]

UserEdit(sec, kind, i, field) ==
    /\ pc = "idle" /\ budget.edits > 0
    /\ sec \in DOMAIN logc /\ logc[sec].shape = "dict"
    /\ CASE kind \in {"garbage", "hash"} -> i = 1 /\ field = "action"
         [] kind = "meta" -> i \in 1..Len(logc[sec].meta) /\ field = "action"
                             /\ logc[sec].meta[i][1] # "hash"
         [] kind = "field" -> i \in 1..Len(logc[sec].actions)
         [] kind \in {"drop", "add"} -> i \in 1..Len(logc[sec].actions) /\ field = "action"
         [] kind = "swap" -> i \in 1..(Len(logc[sec].actions) - 1) /\ field = "action"
                             /\ logc[sec].actions[i] # logc[sec].actions[i + 1]
    /\ logc' = [logc EXCEPT ![sec] = Edited(@, kind, i, field)]
    /\ budget' = [budget EXCEPT !.edits = @ - 1]
    /\ last' = NoLast
    /\ UNCHANGED <<fs, now, scan, pc, run, queue, actions, claimed, sink, failed,
                   pending, rv, hist>>

\* ------------------------------------------------------------------ revert
\* a replay that takes the actions in the order of the log
Reverse_LogOrder(s) == s
\* actions.reverse()
RECURSIVE Reverse(_)
Reverse(s) == IF s = << >> THEN << >> ELSE Append(Reverse(Tail(s)), s[1])

\* sorted(folder.glob("levelzap.log.*.json"), reverse=True)
RECURSIVE Descending(_)
Descending(S) ==
    IF S = {} THEN << >>
    ELSE LET m == CHOOSE x \in S : \A y \in S : y <= x
         IN <<m>> \o Descending(S \ {m})

\* revert_log is called on one log file of the root
RevertStart(sec, keep) ==
    /\ pc = "idle" /\ budget.reverts > 0
    /\ sec \in DOMAIN logc
    /\ budget' = [budget EXCEPT !.reverts = @ - 1]
    /\ pending' = <<sec>>
    /\ pc' = "load"
    /\ rv' = [NoRv EXCEPT !.keep = keep]
    /\ sink' = << >> /\ last' = NoLast
    /\ UNCHANGED <<fs, logc, now, scan, run, queue, actions, claimed, failed, hist>>

\* revert_all_logs: every log file of the root, newest name first
RevertAllStart(keep) ==
    /\ pc = "idle" /\ budget.reverts > 0
    /\ pending' = Descending(DOMAIN logc)
    /\ IF DOMAIN logc = {}
       THEN pc' = "idle" /\ sink' = <<"error">> /\ rv' = NoRv /\ budget' = budget
       ELSE /\ pc' = "load" /\ sink' = << >> /\ rv' = [NoRv EXCEPT !.keep = keep]
            /\ budget' = [budget EXCEPT !.reverts = @ - 1]
    /\ last' = NoLast
    /\ UNCHANGED <<fs, logc, now, scan, run, queue, actions, claimed, failed, hist>>

\* main --revert on a root without log files: an error and sys.exit(1)
RevertNone ==
    /\ pc = "idle" /\ budget.reverts > 0
    /\ DOMAIN logc = {}
    /\ sink' = <<"error">>
    /\ last' = [NoLast EXCEPT !.status = ExitError]
    /\ UNCHANGED <<fs, logc, now, scan, pc, run, queue, actions, claimed, failed,
                   pending, rv, budget, hist>>

AfterCall == IF Tail(pending) = << >> THEN "idle" ELSE "load"

\* revert_log, from the open of the file to the end of its gates
RevertLoad ==
    /\ pc = "load"
    /\ LET sec == Head(pending)
           c == IF sec \in DOMAIN logc THEN logc[sec] ELSE Garbage
           g == Gate(c)
       IN IF g # "passed"
          THEN /\ last' = [NoLast EXCEPT !.outcome = g, !.log = sec,
                                         !.fs0 = fs, !.content0 = c, !.status = ExitOk]
               /\ sink' = Append(sink, "error")
               /\ pc' = AfterCall
               /\ rv' = IF Tail(pending) = << >> THEN NoRv ELSE rv
          ELSE /\ rv' = [log |-> sec, keep |-> rv.keep, acts |-> Reverse(c.actions),
                         i |-> 1, fs0 |-> fs, skipped |-> 0, mutated |-> 0,
                         clean |-> sec \in DOMAIN hist /\ hist[sec].content = c
                                   /\ hist[sec].post = fs]
               /\ last' = NoLast
               /\ sink' = Append(sink, "success")
               /\ pc' = "replay"
    /\ pending' = Tail(pending)
    /\ UNCHANGED <<fs, logc, now, scan, run, queue, actions, claimed, failed, budget, hist>>

\* an inverse that moves the destination of an overwrite back like that of a move
Invert_OverwriteAsMove(f, a, ts) ==
    CASE a.action \in {"move", "move_renamed", "overwrite_file", "overwrite_folder"} ->
           IF Exists(f, a.destination)
           THEN LET m == MkdirP(f, Parent(a.source))
                    r == IF m.ok THEN Rename(m.fs, a.destination, a.source) ELSE m
                IN [ok |-> r.ok, fs |-> r.fs, event |-> IF r.ok THEN "" ELSE "error"]
           ELSE [ok |-> FALSE, fs |-> f, event |-> ""]
      [] a.action \in {"delete_folder", "delete_empty_folder"} ->
           LET m == MkdirP(f, a.source)
           IN [ok |-> m.ok, fs |-> m.fs, event |-> IF m.ok THEN "" ELSE "error"]
      [] a.action = "delete_zero_file" ->
           LET m == MkdirP(f, Parent(a.source))
               r == IF m.ok THEN Touch(m.fs, a.source, ts) ELSE m
           IN [ok |-> r.ok, fs |-> r.fs, event |-> IF r.ok THEN "" ELSE "error"]
      [] OTHER -> [ok |-> TRUE, fs |-> f, event |-> "warning"]
\* the inverse of one logged action: [ok, fs, event], ok FALSE when the
\* inversion raised or found nothing to move back
Invert(f, a, ts) ==
    CASE a.action \in {"move", "move_renamed"} ->
           IF Exists(f, a.destination)
           THEN LET m == MkdirP(f, Parent(a.source))
                    r == IF m.ok THEN Rename(m.fs, a.destination, a.source) ELSE m
                IN [ok |-> r.ok, fs |-> r.fs, event |-> IF r.ok THEN "" ELSE "error"]
           ELSE [ok |-> FALSE, fs |-> f, event |-> ""]
      [] a.action \in {"delete_folder", "delete_empty_folder"} ->
           LET m == MkdirP(f, a.source)
           IN [ok |-> m.ok, fs |-> m.fs, event |-> IF m.ok THEN "" ELSE "error"]
      [] a.action = "delete_zero_file" ->
           LET m == MkdirP(f, Parent(a.source))
               r == IF m.ok THEN Touch(m.fs, a.source, ts) ELSE m
           IN [ok |-> r.ok, fs |-> r.fs, event |-> IF r.ok THEN "" ELSE "error"]
      [] OTHER -> [ok |-> TRUE, fs |-> f, event |-> "warning"]

\* one iteration of the replay loop of revert_log
RevertStep ==
    /\ pc = "replay" /\ rv.i <= Len(rv.acts)
    /\ LET r == Invert(fs, rv.acts[rv.i], now)
       IN /\ fs' = r.fs
          /\ sink' = IF r.event = "" THEN sink ELSE Append(sink, r.event)
          /\ rv' = [rv EXCEPT !.i = @ + 1,
                              !.skipped = IF r.ok THEN @ ELSE @ + 1,
                              !.mutated = IF r.fs # fs THEN @ + 1 ELSE @]
    /\ UNCHANGED <<logc, now, scan, pc, run, queue, actions, claimed, failed, pending,
                   last, budget, hist>>

\* keep_log: the loaded JSON value + [marker]; "+" raises TypeError unless the
\* value is a list
Marker(ts) == [reverted |-> TRUE, timestamp |-> ts]
WithMarker(c, ts) ==
    IF c.shape = "list"
    THEN [ok |-> TRUE, c |-> [c EXCEPT !.actions = Append(@, Marker(ts))]]
    ELSE [ok |-> FALSE, c |-> c]

\* an end of revert_log that never deletes the log file
Retire_NoUnlink(f, lc, sec, keep, ts) ==
    IF keep
    THEN LET w == WithMarker(lc[sec], ts)
         IN [ok |-> w.ok, fs |-> f, logc |-> [lc EXCEPT ![sec] = w.c]]
    ELSE [ok |-> TRUE, fs |-> f, logc |-> lc]
\* the end of revert_log: the log file is marked (keep_log) or deleted
Retire(f, lc, sec, keep, ts) ==
    IF keep
    THEN LET w == WithMarker(lc[sec], ts)
         IN [ok |-> w.ok, fs |-> f, logc |-> [lc EXCEPT ![sec] = w.c]]
    ELSE LET u == Unlink(f, LogPath(sec))
         IN [ok |-> u.ok, fs |-> u.fs,
             logc |-> IF u.ok THEN Restrict(lc, DOMAIN lc \ {sec}) ELSE lc]

RevertFinish ==
    /\ pc = "replay" /\ rv.i > Len(rv.acts)
    /\ LET r == Retire(fs, logc, rv.log, rv.keep, now)
       IN /\ fs' = r.fs /\ logc' = r.logc
          /\ sink' = Append(sink, IF r.ok THEN "success" ELSE "error")
    /\ last' = [outcome |-> "passed", log |-> rv.log, keep |-> rv.keep, fs0 |-> rv.fs0,
                content0 |-> logc[rv.log], skipped |-> rv.skipped, mutated |-> rv.mutated,
                clean |-> rv.clean, visited |-> rv.i - 1, status |-> ExitOk]
    /\ hist' = IF rv.log \in DOMAIN hist
               THEN [hist EXCEPT ![rv.log].reverts = @ + 1] ELSE hist
    /\ pc' = IF pending = << >> THEN "idle" ELSE "load"
    /\ rv' = IF pending = << >> THEN NoRv ELSE [NoRv EXCEPT !.keep = rv.keep]
    /\ UNCHANGED <<now, scan, run, queue, actions, claimed, failed, pending, budget>>

\* ------------------------------------------------------------------ specification
DirOrders == {"fwd", "rev"}

Flatten ==
    \E simulate \in BOOLEAN, merge \in BOOLEAN, overwrite \in BOOLEAN :
       \/ FlattenStart(simulate, merge, overwrite, FALSE, "rename", "fwd")
       \/ /\ ~merge /\ ~overwrite
          /\ \E strategy \in Strategies, setdir \in DirOrders :
                FlattenStart(simulate, FALSE, FALSE, TRUE, strategy, setdir)

Cleanup ==
    \E op \in {"remove_empty_folders", "remove_zero_byte_files"},
       simulate \in BOOLEAN, recurse \in BOOLEAN : CleanupStart(op, simulate, recurse)

Revert == \E sec \in DOMAIN logc, keep \in BOOLEAN : RevertStart(sec, keep)
RevertAll == \E keep \in BOOLEAN : RevertAllStart(keep)

Edit ==
    \E sec \in DOMAIN logc, kind \in EditKinds, i \in 1..8,
       field \in {"action", "source", "destination"} : UserEdit(sec, kind, i, field)

Next ==
    \/ Flatten \/ FlattenStep
    \/ Cleanup \/ CleanupStep
    \/ WriteLog
    \/ Revert \/ RevertAll \/ RevertNone \/ RevertLoad \/ RevertStep \/ RevertFinish

Spec == Init /\ [][Next]_vars

\* the same operations on a smaller family of trees, with the user editing log
\* files between operations
NextLog == Next \/ Edit
SpecLog == InitLog /\ [][NextLog]_vars

\* one run, which goes on once started: the walk takes its next item, and the
\* log is written when the walk has ended
NextRun == Flatten \/ FlattenStep \/ Cleanup \/ CleanupStep \/ WriteLog
SpecFair ==
    /\ InitRun /\ [][NextRun]_vars
    /\ WF_vars(FlattenStep) /\ WF_vars(CleanupStep) /\ WF_vars(WriteLog)

\* one flatten run on trees whose files carry derived names
NextNames == Flatten \/ FlattenStep \/ WriteLog
SpecNames == InitNames /\ [][NextNames]_vars

\* runs one after the other on the same root, within one second or not
NextTwice == Flatten \/ FlattenStep \/ Cleanup \/ CleanupStep \/ WriteLog \/ Tick
SpecTwice == InitTwice /\ [][NextTwice]_vars

\* real flatten runs one after the other, then revert_all_logs on the root
FlattenReal ==
    \E merge \in BOOLEAN, overwrite \in BOOLEAN :
       \/ FlattenStart(FALSE, merge, overwrite, FALSE, "rename", "fwd")
       \/ /\ ~merge /\ ~overwrite
          /\ \E strategy \in Strategies, setdir \in DirOrders :
                FlattenStart(FALSE, FALSE, FALSE, TRUE, strategy, setdir)
InitAll ==
    /\ InitWith(LogFiles, LogDirs, [runs |-> MaxRunsAll, reverts |-> MaxReverts, edits |-> 0])
    /\ scan = "fwd"
NextAll ==
    \/ FlattenReal \/ FlattenStep \/ WriteLog \/ Tick
    \/ RevertAll \/ RevertLoad \/ RevertStep \/ RevertFinish
SpecAll == InitAll /\ [][NextAll]_vars

\* one recursive flatten under a comparison strategy on trees in which the
\* stat call on some files raises OSError
StatFiles == {<<NA, NX>>, <<NB, NX>>, <<ND, NX>>}
InitStat ==
    /\ \E F \in SUBSET StatFiles : \E D \in SUBSET LogDirs :
          /\ Cardinality(F) <= MaxFilesStat
          /\ \E attr \in [F -> StatProfiles \cup {Unreadable}] : fs = Tree(F, D, attr)
    /\ logc = << >> /\ now = 0 /\ scan \in {"fwd", "rev"} /\ pc = "idle"
    /\ run = NoRun /\ queue = << >> /\ actions = << >> /\ claimed = {}
    /\ sink = << >> /\ failed = {} /\ pending = << >> /\ rv = NoRv /\ last = NoLast
    /\ budget = [runs |-> MaxRuns, reverts |-> 0, edits |-> 0]
    /\ hist = << >>
FlattenCompare ==
    \E simulate \in BOOLEAN, strategy \in Comparison, setdir \in DirOrders :
        FlattenStart(simulate, FALSE, FALSE, TRUE, strategy, setdir)
NextStat == FlattenCompare \/ FlattenStep \/ WriteLog
SpecStat == InitStat /\ [][NextStat]_vars

\* ------------------------------------------------------------------ properties
\* what a listing of the tree shows: every path below the root that is not a
\* log file, its kind, and whether a directory is empty
TreeView(f) ==
    [p \in {q \in DOMAIN f : ~IsLogPath(q)} |->
        [kind |-> f[p].kind, empty |-> f[p].kind = "dir" /\ Children(f, p) = {}]]
HasOverwrite(acts) ==
    \E k \in 1..Len(acts) : acts[k].action \in {"overwrite_file", "overwrite_folder"}
HasAction(acts, type) == \E k \in 1..Len(acts) : acts[k].action = type
LogOnDisk(sec) == sec \in DOMAIN logc /\ IsFile(fs, LogPath(sec))
\* the revert_log call that returned last left the tree and its log file alone
Untouched ==
    /\ last.visited = 0
    /\ fs = last.fs0
    /\ LogOnDisk(last.log) /\ logc[last.log] = last.content0

\* C1: a real flatten run whose log holds no overwrite action, followed at once
\* by revert_log on its log, leaves the listing of the tree (paths, kinds,
\* emptiness of directories; log files aside) as it was before the run.
C1_RevertRestoresListing ==
    (/\ last.outcome = "passed" /\ last.clean
     /\ hist[last.log].run.op = "flatten"
     /\ ~HasOverwrite(last.content0.actions))
    => TreeView(fs) = TreeView(hist[last.log].run.pre)
C1_Witness ==
    /\ last.outcome = "passed" /\ last.clean
    /\ hist[last.log].run.op = "flatten"
    /\ ~HasOverwrite(last.content0.actions)
    /\ HasAction(last.content0.actions, "move_renamed")
    /\ HasAction(last.content0.actions, "delete_folder")
    /\ last.mutated >= 3

\* C2: revert_log on a log whose meta says simulated replays nothing and leaves
\* the tree and the log file as they were.
C2_SimulatedLogRejected ==
    /\ (last.outcome # "none" /\ IsSimulatedLog(last.content0)) => Untouched
    /\ pc = "replay" => ~IsSimulatedLog(logc[rv.log])
C2_Witness ==
    /\ last.outcome = "simulated"
    /\ Len(last.content0.actions) >= 2

\* C3: revert_log on a log file that cannot be parsed, or whose stored hash is
\* not the hash of {meta without hash, actions}, replays nothing and leaves the
\* tree and the log file as they were.
C3_BadLogRejected ==
    /\ (last.outcome # "none" /\ ~VerifyPasses(last.content0)) => Untouched
    /\ pc = "replay" => VerifyPasses(logc[rv.log])
C3_Witness ==
    /\ last.outcome = "integrity"
    /\ Len(last.content0.actions) >= 2
    /\ ~IsSimulatedLog(hist[last.log].content)

\* C4: a log file as its run wrote it passes verification, and revert_log does
\* not stop it at the read or at the integrity gate.
C4_WrittenLogVerifies ==
    \A sec \in DOMAIN logc :
        logc[sec] = hist[sec].content
        => VerifyPasses(logc[sec]) /\ Gate(logc[sec]) \in {"passed", "simulated"}
C4_Witness ==
    \E sec \in DOMAIN logc :
        /\ logc[sec] = hist[sec].content
        /\ hist[sec].run.op = "remove_zero_byte_files"
        /\ hist[sec].reverts = 1

\* C5: a log file whose actions or meta (hash aside) differ from what the run
\* wrote, the stored hash being the one the run wrote, fails verification and
\* is not replayed by revert_log.
ContentEdited(sec) ==
    /\ logc[sec].shape = "dict"
    /\ StoredHash(logc[sec]) = StoredHash(hist[sec].content)
    /\ \/ MetaPop(logc[sec].meta, "hash") # MetaPop(hist[sec].content.meta, "hash")
       \/ logc[sec].actions # hist[sec].content.actions
C5_EditDetected ==
    \A sec \in DOMAIN logc :
        ContentEdited(sec) => ~VerifyPasses(logc[sec]) /\ Gate(logc[sec]) # "passed"
C5_Witness ==
    \E sec \in DOMAIN logc :
        /\ ContentEdited(sec)
        /\ MetaPop(logc[sec].meta, "hash") # MetaPop(hist[sec].content.meta, "hash")
        /\ ~IsSimulatedLog(logc[sec])

\* C6: once a revert of a log has passed both gates and completed, no later
\* revert replays the actions of that log again.
C6_RevertedAtMostOnce ==
    \A sec \in DOMAIN hist :
        hist[sec].content.actions # << >> => hist[sec].reverts <= 1

\* C7: after revert_log with keep_log that passed both gates, the log file is
\* still there and ends with the marker {reverted, timestamp}.
HasMarker(c) ==
    /\ c.shape = "list" /\ c.actions # << >>
    /\ "reverted" \in DOMAIN c.actions[Len(c.actions)]
C7_KeptLogMarked ==
    (last.outcome = "passed" /\ last.keep)
    => LogOnDisk(last.log) /\ HasMarker(logc[last.log])

\* C8: after revert_log without keep_log that passed both gates the log file is
\* gone, every action of the log has been visited by then, and a log file only
\* ever disappears in the step that follows the visit of the last action.
C8_LogGoneAfterReplay ==
    (last.outcome = "passed" /\ ~last.keep)
    => /\ ~Exists(fs, LogPath(last.log)) /\ last.log \notin DOMAIN logc
       /\ last.visited = Len(last.content0.actions)
C8_DeletedOnlyAfterReplay ==
    \A sec \in DOMAIN logc :
        (sec \notin DOMAIN logc' \/ ~Exists(fs', LogPath(sec)))
        => pc = "replay" /\ rv.log = sec /\ rv.i > Len(rv.acts)
C9_AllOrNothing ==
    last.outcome = "passed" => (last.skipped = 0 \/ last.mutated = 0)

\* C10: in the log of a flatten run the destinations of the move_renamed
\* actions are pairwise distinct and none of them existed before the run.
RenamedTargetsFresh(acts, pre) ==
    \A j \in 1..Len(acts) :
        acts[j].action = "move_renamed"
        => /\ ~Exists(pre, acts[j].destination)
           /\ \A k \in 1..Len(acts) :
                (k # j /\ acts[k].action = "move_renamed")
                => acts[k].destination # acts[j].destination
C10_RenamedTargetsFresh ==
    \A sec \in DOMAIN hist :
        hist[sec].run.op = "flatten"
        => RenamedTargetsFresh(hist[sec].content.actions, hist[sec].run.pre)

\* C11: in a real flatten run with the rename strategy (recursive) or without
\* the overwrite flag (one-level), no move or move_renamed is executed onto a
\* path another entry occupies at that moment, and the run ends with as many
\* files below the root as it started with.
KeepsOccupants(r) ==
    /\ r.op = "flatten" /\ ~r.simulate
    /\ IF r.recurse THEN r.strategy = "rename" ELSE ~r.overwrite
FileCount(f) == Cardinality({p \in DOMAIN f : f[p].kind = "file" /\ ~IsLogPath(p)})
C11_MoveOntoFree ==
    (/\ pc = "run" /\ KeepsOccupants(run)
     /\ Len(actions') = Len(actions) + 1
     /\ actions'[Len(actions')].action \in {"move", "move_renamed"})
    => LET e == actions'[Len(actions')]
       IN e.destination = e.source \/ ~Exists(fs, e.destination)
C11_FilesKept ==
    \A sec \in DOMAIN hist :
        KeepsOccupants(hist[sec].run)
        => FileCount(hist[sec].post) = FileCount(hist[sec].run.pre)
C11_NoOccupantReplaced == [][C11_MoveOntoFree]_vars /\ []C11_FilesKept

\* C12: on a root holding exactly a/x and b/x, a real recursive flatten with the
\* rename strategy leaves x and x_1 at the root and neither folder, and logs one
\* move to x, one move_renamed to x_1 with original_conflict x, then the two
\* delete_folder actions.
ScenarioA(r) ==
    /\ r.op = "flatten" /\ ~r.simulate /\ r.recurse /\ r.strategy = "rename"
    /\ DOMAIN r.pre = {<<NA>>, <<NB>>, <<NA, NX>>, <<NB, NX>>}
    /\ r.pre[<<NA, NX>>].kind = "file" /\ r.pre[<<NB, NX>>].kind = "file"
ScenarioAResult(h, sec) ==
    LET acts == h.content.actions
    IN /\ DOMAIN h.post = {<<NX>>, <<NX1>>, LogPath(sec)}
       /\ h.post[<<NX>>].kind = "file" /\ h.post[<<NX1>>].kind = "file"
       /\ Len(acts) = 4
       /\ acts[1].action = "move" /\ acts[1].destination = <<NX>>
       /\ acts[2].action = "move_renamed" /\ acts[2].destination = <<NX1>>
       /\ acts[2].original_conflict = <<NX>>
       /\ {acts[1].source, acts[2].source} = {<<NA, NX>>, <<NB, NX>>}
       /\ h.post[<<NX>>] = h.run.pre[acts[1].source]
       /\ h.post[<<NX1>>] = h.run.pre[acts[2].source]
       /\ acts[3].action = "delete_folder" /\ acts[4].action = "delete_folder"
       /\ {acts[3].source, acts[4].source} = {<<NA>>, <<NB>>}
C12_ScenarioA ==
    \A sec \in DOMAIN hist : ScenarioA(hist[sec].run) => ScenarioAResult(hist[sec], sec)
C12_Witness ==
    \E sec \in DOMAIN hist :
        /\ ScenarioA(hist[sec].run) /\ scan = "rev"
        /\ hist[sec].content.actions[1].source = <<NB, NX>>
        /\ pc = "idle"

\* C13: a simulated run changes nothing that was below the root before it (the
\* log files of earlier runs included); all it adds is its own log file.
C13_SimulatedStep ==
    (pc = "run" /\ run.simulate)
    => /\ \A p \in DOMAIN fs : p \in DOMAIN fs' /\ fs'[p] = fs[p]
       /\ DOMAIN fs' \ DOMAIN fs \subseteq {LogPath(run.log_file)}
       /\ \A sec \in DOMAIN logc : sec \in DOMAIN logc' /\ logc'[sec] = logc[sec]
C13_SimulationLeavesTree == [][C13_SimulatedStep]_vars

\* C16: the log file a run writes is a new file: it never takes the place of
\* the log file of an earlier run on the same root.
C16_LogWrittenAnew == (pc = "run" /\ pc' = "idle") => run.log_file \notin DOMAIN logc
C16_OwnLogFile == [][C16_LogWrittenAnew]_vars

\* C14: two simulated flatten runs with the same arguments, the second starting
\* on the tree the first one left, log the same actions, timestamps aside.
NoTimestamps(acts) == [k \in 1..Len(acts) |-> [acts[k] EXCEPT !.timestamp = 0]]
SameArguments(r1, r2) ==
    /\ r1.op = r2.op /\ r1.simulate = r2.simulate /\ r1.merge = r2.merge
    /\ r1.overwrite = r2.overwrite /\ r1.recurse = r2.recurse /\ r1.strategy = r2.strategy
C14_SimulationIdempotent ==
    \A s1 \in DOMAIN hist, s2 \in DOMAIN hist :
        (/\ s1 < s2
         /\ hist[s1].run.op = "flatten" /\ hist[s1].run.simulate
         /\ SameArguments(hist[s1].run, hist[s2].run)
         /\ hist[s2].run.pre = hist[s1].post)
        => NoTimestamps(hist[s2].content.actions) = NoTimestamps(hist[s1].content.actions)

\* C15: the actions a real flatten run logs are those a simulated run with the
\* same arguments logs on the same tree with the same enumeration order,
\* timestamps aside.
C15_SimulationMatchesReal ==
    \A sec \in DOMAIN hist :
        (hist[sec].run.op = "flatten" /\ ~hist[sec].run.simulate)
        => \E setdir \in DirOrders :
              NoTimestamps(FlattenLog(hist[sec].run.pre,
                                      [hist[sec].run EXCEPT !.simulate = TRUE],
                                      scan, setdir, 0))
              = NoTimestamps(hist[sec].content.actions)

\* C17: a flatten run that has started its walk ends up writing its log file;
\* the log holds an entry for every executor call, those whose effect failed
\* included, and after a failed call the walk goes on with the next item.
C17_LogWritten ==
    \A sec \in 0..MaxClock :
        (pc = "run" /\ run.op = "flatten" /\ run.log_file = sec)
        ~> (sec \in DOMAIN hist /\ hist[sec].run.op = "flatten")
C17_EveryCallLogged ==
    /\ (pc = "run" /\ run.op = "flatten") => failed \subseteq 1..Len(actions)
    /\ \A sec \in DOMAIN hist :
          hist[sec].run.op = "flatten"
          => hist[sec].failed \subseteq 1..Len(hist[sec].content.actions)
C17_WalkStep ==
    (pc = "run" /\ run.op = "flatten" /\ queue # << >>)
    => /\ SubSeq(actions', 1, Len(actions)) = actions
       /\ (fs' # fs \/ failed' # failed) => Len(actions') = Len(actions) + 1
       /\ pc' = "run" /\ Len(queue') >= Len(queue) - 1
       /\ SubSeq(queue', Len(queue') - Len(queue) + 2, Len(queue')) = Tail(queue)
C17_WalkEndsInLog ==
    (pc = "run" /\ run.op = "flatten" /\ queue = << >>)
    => /\ run.log_file \in DOMAIN logc' /\ logc'[run.log_file].actions = actions
       /\ IsFile(fs', LogPath(run.log_file))
C17_LogAlwaysWritten ==
    /\ C17_LogWritten /\ []C17_EveryCallLogged
    /\ [][C17_WalkStep /\ C17_WalkEndsInLog]_vars
C17_Witness ==
    \E sec \in DOMAIN hist :
        /\ hist[sec].run.op = "flatten"
        /\ \E i \in hist[sec].failed : i < Len(hist[sec].content.actions)
        /\ LogOnDisk(sec)

\* C18: an invocation whose revert stops at a gate (unreadable, simulated or
\* modified log) ends with a non-zero exit status, and a revert that only met
\* failures of single actions ends with status zero.
C18_GateFailureExitsNonZero ==
    /\ last.outcome \in {"unreadable", "simulated", "integrity"} => last.status # ExitOk
    /\ last.outcome = "passed" => last.status = ExitOk

\* C19: when the replay of revert_log comes to an overwrite_file or
\* overwrite_folder action it sends a warning, leaves the tree as it is and
\* goes on with the next action of the log.
C19_OverwriteStep ==
    (/\ pc = "replay" /\ rv.i <= Len(rv.acts)
     /\ rv.acts[rv.i].action \in {"overwrite_file", "overwrite_folder"})
    => /\ fs' = fs /\ logc' = logc
       /\ sink' = Append(sink, "warning")
       /\ pc' = "replay" /\ rv'.i = rv.i + 1 /\ rv'.acts = rv.acts
C19_AllVisited == last.outcome = "passed" => last.visited = Len(last.content0.actions)
C19_OverwriteSkipped == [][C19_OverwriteStep]_vars /\ []C19_AllVisited
C19_Witness ==
    /\ last.outcome = "passed" /\ last.mutated >= 3
    /\ \E k \in 2..Len(last.content0.actions) :
          /\ last.content0.actions[k].action = "overwrite_file"
          /\ last.content0.actions[1].action = "move"
    /\ \E i \in 1..Len(sink) : sink[i] = "warning"

\* C20: a real remove_empty_folders or remove_zero_byte_files run followed at
\* once by revert_log on its log leaves the tree as it was before the run:
\* the same paths and kinds, the same directories empty, every file of the
\* same length (the removed ones were and are of length zero).
SizedView(f) ==
    [p \in {q \in DOMAIN f : ~IsLogPath(q)} |->
        [kind |-> f[p].kind, empty |-> f[p].kind = "dir" /\ Children(f, p) = {},
         size |-> f[p].size]]
CleanupReverted ==
    /\ last.outcome = "passed" /\ last.clean
    /\ hist[last.log].run.op \in {"remove_empty_folders", "remove_zero_byte_files"}
C20_CleanupRevertRestores ==
    CleanupReverted => SizedView(fs) = SizedView(hist[last.log].run.pre)
C20_Witness ==
    /\ CleanupReverted
    /\ hist[last.log].run.op = "remove_zero_byte_files" /\ hist[last.log].run.recurse
    /\ last.mutated = 2
    /\ SizedView(hist[last.log].post) # SizedView(hist[last.log].run.pre)

\* C21: revert_all_logs takes the log files of the root newest name first; after
\* two real flatten runs R1 then R2 whose logs hold no overwrite action,
\* revert_all_logs without keep_logs leaves the listing of the tree as it was
\* before R1 and no log file at the root.
C21_NewestFirst ==
    pc = "load" => \A k \in 1..Len(pending) : pending[k] <= Head(pending)
BothReverted(s1, s2) ==
    /\ s1 < s2
    /\ \A s \in {s1, s2} :
          /\ hist[s].run.op = "flatten" /\ ~hist[s].run.simulate
          /\ ~HasOverwrite(hist[s].content.actions)
          /\ hist[s].reverts = 1
    /\ hist[s2].run.pre = hist[s1].post
    /\ pc = "idle" /\ last.outcome = "passed" /\ ~last.keep /\ last.log = s1
C21_TreeRestored ==
    \A s1 \in DOMAIN hist, s2 \in DOMAIN hist :
        BothReverted(s1, s2)
        => /\ TreeView(fs) = TreeView(hist[s1].run.pre)
           /\ DOMAIN logc = {} /\ \A p \in DOMAIN fs : ~IsLogPath(p)
C21_RevertAllRestores == C21_NewestFirst /\ C21_TreeRestored

\* C22: a real one-level flatten of a tree without name conflicts moves every
\* entry of every immediate subfolder to the root under its own name (a nested
\* folder with its subtree as it was), deletes every immediate subfolder and
\* leaves the entries of the root alone; its log holds one move per moved entry
\* and, after the moves out of a subfolder, one delete_folder for it.
SubFolders(f) == {p \in DOMAIN f : Len(p) = 1 /\ f[p].kind = "dir"}
SubEntries(f) == {p \in DOMAIN f : Len(p) = 2}
NoNameConflict(f) ==
    \A e \in SubEntries(f) :
        /\ ~Exists(f, <<BaseName(e)>>)
        /\ \A e2 \in SubEntries(f) \ {e} : BaseName(e2) # BaseName(e)
OneLevelReal(r) == r.op = "flatten" /\ ~r.simulate /\ ~r.recurse
Lifted(f) ==
    LET stay == {p \in DOMAIN f : Len(p) = 1 /\ f[p].kind = "file"}
        up == {Tail(p) : p \in {q \in DOMAIN f : Len(q) >= 2}}
    IN [p \in stay \cup up |->
          IF p \in stay THEN f[p]
          ELSE f[CHOOSE q \in DOMAIN f : Len(q) >= 2 /\ Tail(q) = p]]
OneLevelLog(acts, pre) ==
    /\ \A k \in 1..Len(acts) : acts[k].action \in {"move", "delete_folder"}
    /\ \A e \in SubEntries(pre) :
          Cardinality({k \in 1..Len(acts) :
                          /\ acts[k].action = "move" /\ acts[k].source = e
                          /\ acts[k].destination = <<BaseName(e)>>}) = 1
    /\ Cardinality({k \in 1..Len(acts) : acts[k].action = "move"})
          = Cardinality(SubEntries(pre))
    /\ \A s \in SubFolders(pre) :
          \E k \in 1..Len(acts) :
             /\ acts[k].action = "delete_folder" /\ acts[k].source = s
             /\ \A j \in 1..Len(acts) :
                   /\ (acts[j].action = "move" /\ Parent(acts[j].source) = s) => j < k
                   /\ (acts[j].action = "delete_folder" /\ acts[j].source = s) => j = k
    /\ Cardinality({k \in 1..Len(acts) : acts[k].action = "delete_folder"})
          = Cardinality(SubFolders(pre))
C22_OneLevelLifts ==
    \A sec \in DOMAIN hist :
        (OneLevelReal(hist[sec].run) /\ NoNameConflict(hist[sec].run.pre))
        => /\ Restrict(hist[sec].post, DOMAIN hist[sec].post \ {LogPath(sec)})
                = Lifted(Restrict(hist[sec].run.pre, DOMAIN hist[sec].run.pre \ {LogPath(sec)}))
           /\ OneLevelLog(hist[sec].content.actions, hist[sec].run.pre)
           /\ hist[sec].failed = {}
C22_Witness ==
    \E sec \in DOMAIN hist :
        /\ OneLevelReal(hist[sec].run) /\ NoNameConflict(hist[sec].run.pre)
        /\ <<NA, ND, NX>> \in DOMAIN hist[sec].run.pre
        /\ <<ND, NX>> \in DOMAIN hist[sec].post
        /\ Cardinality(SubFolders(hist[sec].run.pre)) = 2
        /\ Len(hist[sec].content.actions) = 4

\* C23: in the log of a recursive flatten, under every duplicate strategy, the
\* destination of every move, move_renamed and overwrite_file action is an
\* immediate child of the root.
C23_DestinationsAtRoot ==
    \A sec \in DOMAIN hist :
        (hist[sec].run.op = "flatten" /\ hist[sec].run.recurse)
        => \A k \in 1..Len(hist[sec].content.actions) :
              hist[sec].content.actions[k].action \in {"move", "move_renamed", "overwrite_file"}
              => Len(hist[sec].content.actions[k].destination) = 1

\* C24: a remove_empty_folders or remove_zero_byte_files call on a tree without
\* a candidate returns at once: no log file is written, the log files of the
\* root and every other entry stay as they were; a cleanup run that goes on to
\* its removal loop (and so to a log) has found a candidate.
HasCandidate(f, op, recurse) ==
    IF op = "remove_empty_folders"
    THEN \E p \in DOMAIN f :
            f[p].kind = "dir" /\ Children(f, p) = {} /\ (recurse \/ Len(p) = 1)
    ELSE \E p \in DOMAIN f :
            f[p].kind = "file" /\ f[p].size = 0 /\ (recurse \/ Len(p) <= 2)
C24_CleanupCall ==
    (pc = "idle" /\ budget'.runs < budget.runs /\ run'.op # "flatten")
    => /\ pc' = "run" => HasCandidate(fs, run'.op, run'.recurse)
       /\ pc' # "run" => pc' = "idle" /\ fs' = fs /\ logc' = logc /\ hist' = hist
C24_CleanupLogged ==
    \A sec \in DOMAIN hist :
        hist[sec].run.op # "flatten"
        => /\ hist[sec].content.actions # << >>
           /\ HasCandidate(hist[sec].run.pre, hist[sec].run.op, hist[sec].run.recurse)
C24_NoCandidateNoLog == [][C24_CleanupCall]_vars /\ []C24_CleanupLogged
C24_Witness ==
    /\ pc = "idle" /\ budget.runs < MaxRuns
    /\ DOMAIN hist = {} /\ DOMAIN logc = {}
    /\ \A p \in DOMAIN fs : ~IsLogPath(p)
    /\ \E p \in DOMAIN fs : fs[p].kind = "dir" /\ Len(p) = 2 /\ Children(fs, p) = {}
    /\ \E p \in DOMAIN fs : fs[p].kind = "file" /\ Len(p) = 2
    /\ \A p \in DOMAIN fs : fs[p].kind = "file" => fs[p].size > 0

\* C25: a real recursive remove_empty_folders run removes every directory that
\* holds nothing but (transitively) empty directories: after the run no empty
\* directory is left below the root.
C25_NoEmptyFolderLeft ==
    \A sec \in DOMAIN hist :
        (/\ hist[sec].run.op = "remove_empty_folders"
         /\ hist[sec].run.recurse /\ ~hist[sec].run.simulate)
        => \A p \in DOMAIN hist[sec].post :
              hist[sec].post[p].kind = "dir" => Children(hist[sec].post, p) # {}

\* C26: every action of a remove_empty_folders run is a delete_empty_folder of
\* a directory that had no entry when the run started, in non-recursive mode an
\* immediate child of the root; every directory that had an entry and every
\* file are still there after the run, the files as they were.
EmptyFolderRun(h) ==
    LET acts == h.content.actions
        pre == h.run.pre
    IN /\ \A k \in 1..Len(acts) :
             /\ acts[k].action = "delete_empty_folder"
             /\ IsDir(pre, acts[k].source) /\ acts[k].source # Root
             /\ Children(pre, acts[k].source) = {}
             /\ ~h.run.recurse => Len(acts[k].source) = 1
       /\ \A p \in DOMAIN pre :
             (pre[p].kind = "file" \/ Children(pre, p) # {})
             => p \in DOMAIN h.post /\ h.post[p] = pre[p]
C26_OnlyEmptyFoldersRemoved ==
    \A sec \in DOMAIN hist :
        hist[sec].run.op = "remove_empty_folders" => EmptyFolderRun(hist[sec])
C26_Witness ==
    \E sec \in DOMAIN hist :
        /\ hist[sec].run.op = "remove_empty_folders"
        /\ ~hist[sec].run.recurse /\ ~hist[sec].run.simulate
        /\ <<ND>> \in DOMAIN hist[sec].run.pre /\ <<ND>> \notin DOMAIN hist[sec].post
        /\ <<NA, NX>> \in DOMAIN hist[sec].post /\ <<NX>> \in DOMAIN hist[sec].post

\* C27: the actions of a remove_zero_byte_files run are one delete_zero_file for
\* each file of length zero among the files examined (every file below the root
\* when recursive, else the files of the root and of its immediate subfolders)
\* and nothing else; every file of another length and every directory are
\* still there after the run, as they were.
ZeroCandidates(pre, recurse) ==
    {p \in DOMAIN pre : pre[p].kind = "file" /\ pre[p].size = 0 /\ (recurse \/ Len(p) <= 2)}
ZeroFileRun(h) ==
    LET acts == h.content.actions
        pre == h.run.pre
    IN /\ \A k \in 1..Len(acts) : acts[k].action = "delete_zero_file"
       /\ {acts[k].source : k \in 1..Len(acts)} = ZeroCandidates(pre, h.run.recurse)
       /\ Len(acts) = Cardinality(ZeroCandidates(pre, h.run.recurse))
       /\ \A p \in DOMAIN pre :
             (pre[p].kind = "dir" \/ pre[p].size # 0)
             => p \in DOMAIN h.post /\ h.post[p] = pre[p]
C27_OnlyZeroFilesRemoved ==
    \A sec \in DOMAIN hist :
        hist[sec].run.op = "remove_zero_byte_files" => ZeroFileRun(hist[sec])
C27_Witness ==
    \E sec \in DOMAIN hist :
        /\ hist[sec].run.op = "remove_zero_byte_files"
        /\ ~hist[sec].run.recurse /\ ~hist[sec].run.simulate
        /\ <<NA, NX>> \in DOMAIN hist[sec].run.pre /\ <<NA, NX>> \notin DOMAIN hist[sec].post
        /\ <<NA, ND, NX>> \in DOMAIN hist[sec].post
        /\ hist[sec].post[<<NA, ND, NX>>].size = 0

\* C28: while a run is in progress its action list only grows at the end, by
\* one entry for each executor call; the entries already there stay as they
\* are, the tree changes only in a step that appends an entry, and the change
\* is the effect of that entry (attempted after the entry is appended: the
\* entry is there when the effect fails).
C28_RunStep ==
    (pc = "run" /\ pc' = "run")
    => /\ Len(actions') \in {Len(actions), Len(actions) + 1}
       /\ SubSeq(actions', 1, Len(actions)) = actions
       /\ Len(actions') = Len(actions) => fs' = fs /\ failed' = failed
       /\ Len(actions') = Len(actions) + 1 =>
             LET e == actions'[Len(actions')]
                 r == Effect(fs, e.action, e.source, e.destination)
             IN IF run.simulate THEN fs' = fs /\ failed' = failed
                ELSE /\ fs' = r.fs
                     /\ failed' = IF r.ok THEN failed ELSE failed \cup {Len(actions')}
C28_LogIsActionList ==
    (pc = "run" /\ pc' = "idle") => logc'[run.log_file].actions = actions
C28_LogInExecutionOrder == [][C28_RunStep /\ C28_LogIsActionList]_vars
C28_Witness ==
    /\ pc = "run" /\ ~run.simulate
    /\ Len(actions) >= 3
    /\ 2 \in failed /\ 3 \notin failed
    /\ fs # run.pre
    /\ actions[1] # actions[2] /\ actions[2] # actions[3]

\* C29: in the log of a recursive flatten every delete_folder action comes
\* after every move, move_renamed and overwrite_file action, and of two
\* delete_folder actions on a folder and one of its ancestors the one on the
\* ancestor comes later; when a real run leaves no file below a folder, every
\* folder is empty when its turn comes and all of them are deleted.
IsPlacement(a) == a.action \in {"move", "move_renamed", "overwrite_file"}
FoldersLast(acts) ==
    \A j \in 1..Len(acts), k \in 1..Len(acts) :
        acts[j].action = "delete_folder"
        => /\ IsPlacement(acts[k]) => k < j
           /\ (/\ acts[k].action = "delete_folder" /\ acts[k].source # acts[j].source
               /\ IsPrefix(acts[j].source, acts[k].source)) => k < j
NothingLeftBelow(f) == \A p \in DOMAIN f : f[p].kind = "file" => Len(p) = 1
C29_FoldersDeepestFirst ==
    \A sec \in DOMAIN hist :
        (hist[sec].run.op = "flatten" /\ hist[sec].run.recurse)
        => /\ FoldersLast(hist[sec].content.actions)
           /\ (~hist[sec].run.simulate /\ NothingLeftBelow(hist[sec].post))
              => /\ \A i \in hist[sec].failed :
                       hist[sec].content.actions[i].action # "delete_folder"
                 /\ Dirs(hist[sec].post) = {}
                 /\ \A d \in Dirs(hist[sec].run.pre) :
                       \E k \in 1..Len(hist[sec].content.actions) :
                          /\ hist[sec].content.actions[k].action = "delete_folder"
                          /\ hist[sec].content.actions[k].source = d
C29_Witness ==
    \E sec \in DOMAIN hist :
        /\ hist[sec].run.op = "flatten" /\ hist[sec].run.recurse /\ ~hist[sec].run.simulate
        /\ {<<NA>>, <<NA, ND>>, <<NA, ND, NX>>, <<NA, NX>>} \subseteq DOMAIN hist[sec].run.pre
        /\ NothingLeftBelow(hist[sec].post)
        /\ Len(hist[sec].content.actions) = 4
        /\ hist[sec].content.actions[3].source = <<NA, ND>>
        /\ hist[sec].content.actions[4].source = <<NA>>

\* C30: once the gates have passed, the replay of revert_log takes the actions
\* of the log last to first: its k-th step inverts action n-k+1 of the n
\* actions of the log file, it ends after the n-th step, and so in the log of
\* a flatten run the inversion of delete_folder d is attempted before that of
\* any move out of d.
C30_ReversedList ==
    pc = "replay"
    => /\ rv.log \in DOMAIN logc /\ Len(rv.acts) = Len(logc[rv.log].actions)
       /\ rv.i \in 1..(Len(rv.acts) + 1)
       /\ \A k \in 1..Len(rv.acts) :
             rv.acts[k] = logc[rv.log].actions[Len(rv.acts) - k + 1]
       /\ (rv.log \in DOMAIN hist /\ hist[rv.log].content = logc[rv.log]
           /\ hist[rv.log].run.op = "flatten")
          => \A j \in 1..Len(rv.acts), k \in 1..Len(rv.acts) :
                (/\ rv.acts[j].action = "delete_folder"
                 /\ IsPlacement(rv.acts[k]) \/ rv.acts[k].action = "overwrite_folder"
                 /\ IsPrefix(rv.acts[j].source, Parent(rv.acts[k].source)))
                => j < k
C30_ReplayStep ==
    /\ (pc = "load" /\ pc' = "replay") => rv'.i = 1
    /\ pc = "replay" =>
          LET n == Len(logc[rv.log].actions)
          IN IF rv.i <= n
             THEN /\ fs' = Invert(fs, logc[rv.log].actions[n - rv.i + 1], now).fs
                  /\ rv'.i = rv.i + 1 /\ pc' = "replay" /\ logc' = logc
             ELSE pc' # "replay" /\ rv.i = n + 1
C30_StrictReverseOrder == []C30_ReversedList /\ [][C30_ReplayStep]_vars
C30_Witness ==
    /\ pc = "replay" /\ rv.i = 2 /\ Len(rv.acts) >= 4
    /\ rv.acts[1].action = "delete_folder"
    /\ rv.acts[Len(rv.acts)].action = "move"
    /\ rv.acts[1].source = Parent(rv.acts[Len(rv.acts)].source)
    /\ IsDir(fs, rv.acts[1].source) /\ ~IsDir(rv.fs0, rv.acts[1].source)

\* C31: while the walk of a run has items left, no log file is written or
\* changed, and a run whose log name no earlier run has used has no log file
\* on disk: a run stopped in its walk leaves the tree as far as it got and no
\* log of its own.
LogPathsOf(f) == {p \in DOMAIN f : IsLogPath(p)}
C31_WalkWritesNoLog ==
    (pc = "run" /\ queue # << >>)
    => /\ logc' = logc /\ hist' = hist
       /\ LogPathsOf(fs') = LogPathsOf(fs)
       /\ pc' = "run"
C31_NoLogYet ==
    (pc = "run" /\ run.log_file \notin DOMAIN hist)
    => ~Exists(fs, LogPath(run.log_file)) /\ run.log_file \notin DOMAIN logc
C31_LogOnlyAtEnd == [][C31_WalkWritesNoLog]_vars /\ []C31_NoLogYet
C31_Witness ==
    /\ pc = "run" /\ ~run.simulate /\ queue # << >>
    /\ Len(actions) >= 2 /\ fs # run.pre
    /\ LogPathsOf(fs) = {}

\* C32: in a one-level flatten with neither merge nor overwrite, a folder whose
\* name is taken at the root by another folder is logged as move_renamed to a
\* free sibling name of the contested path, with original_conflict set to the
\* contested path.
C32_FolderStep ==
    (/\ pc = "run" /\ run.op = "flatten" /\ ~run.recurse /\ ~run.merge /\ ~run.overwrite
     /\ Len(actions') = Len(actions) + 1
     /\ Len(actions'[Len(actions')].source) = 2
     /\ IsDir(fs, actions'[Len(actions')].source)
     /\ IsDir(fs, <<BaseName(actions'[Len(actions')].source)>>))
    => LET e == actions'[Len(actions')]
           contested == <<BaseName(e.source)>>
       IN /\ e.action = "move_renamed"
          /\ e.original_conflict = contested
          /\ e.destination # contested /\ ~Exists(fs, e.destination)
          /\ Len(e.destination) = 1 /\ e.destination[1][1] = contested[1][1]
C32_FolderConflictRenamed == [][C32_FolderStep]_vars

\* C33: in a recursive flatten with the overwrite strategy, a file that is the
\* only one of its name and whose name is taken at the root is logged as
\* overwrite_file from the file onto the contested path, and after a real run
\* the file is at the contested path.
LoneFile(pre, p) ==
    /\ pre[p].kind = "file" /\ Len(p) >= 2
    /\ \A q \in DOMAIN pre : (pre[q].kind = "file" /\ BaseName(q) = BaseName(p)) => q = p
C33_LoneFileOverwrites ==
    \A sec \in DOMAIN hist :
        (/\ hist[sec].run.op = "flatten" /\ hist[sec].run.recurse
         /\ hist[sec].run.strategy = "overwrite")
        => \A p \in DOMAIN hist[sec].run.pre :
              (LoneFile(hist[sec].run.pre, p) /\ Exists(hist[sec].run.pre, <<BaseName(p)>>))
              => /\ \E k \in 1..Len(hist[sec].content.actions) :
                       /\ hist[sec].content.actions[k].action = "overwrite_file"
                       /\ hist[sec].content.actions[k].source = p
                       /\ hist[sec].content.actions[k].destination = <<BaseName(p)>>
                 /\ ~hist[sec].run.simulate
                    => /\ IsFile(hist[sec].post, <<BaseName(p)>>)
                       /\ hist[sec].post[<<BaseName(p)>>] = hist[sec].run.pre[p]

\* C34: resolve_conflict_path(P, claimed) is P when P is neither on disk nor
\* claimed; otherwise it is base_i in the directory of P for the least i >= 1
\* whose path is neither on disk nor claimed. The result is never on disk or
\* claimed, and the search ends within as many steps as there are occupied and
\* claimed paths, plus one.
ProbePaths == {<<NX>>, <<NX1>>, <<NA, NX>>, <<NB, NX>>, <<NB, NX1>>}
ProbeClaims == {<<NX>>, <<NX1>>, << <<"x", 2>> >>, << <<"x", 1, 1>> >>, <<NA, NX1>>}
Taken(f, cl, p) == Exists(f, p) \/ p \in cl
Sibling(p, i) == Join(Parent(p), Append(BaseName(p), i))
ResolvesTo(f, cl, p, r) ==
    /\ ~Taken(f, cl, r)
    /\ ~Taken(f, cl, p) => r = p
    /\ Taken(f, cl, p)
       => \E i \in 1..(Cardinality(DOMAIN f) + Cardinality(cl) + 1) :
             /\ r = Sibling(p, i)
             /\ \A j \in 1..(i - 1) : Taken(f, cl, Sibling(p, j))
C34_LeastFreeName ==
    \A p \in ProbePaths, cl \in SUBSET ProbeClaims :
        ResolvesTo(fs, cl, p, resolve_conflict_path(fs, p, cl))
C34_Witness ==
    /\ pc = "run" /\ <<NX>> \in claimed
    /\ Exists(fs, <<NX>>) /\ ~Exists(fs, <<NX1>>) /\ Exists(fs, <<NB, NX1>>)
    /\ resolve_conflict_path(fs, <<NX>>, {<<NX1>>}) = << <<"x", 2>> >>
    /\ resolve_conflict_path(fs, <<NB, NX1>>, {<<NX1>>}) = <<NB, <<"x", 1, 1>> >>
    /\ resolve_conflict_path(fs, <<NX1>>, {}) = <<NX1>>

\* C35: under newest, oldest, largest and smallest, resolve_duplicate_file
\* answers skip exactly when the occupant is at least as new, old, large or
\* small as the incoming entry (ties included), and otherwise answers the
\* contested path.
AtLeastAsExtreme(strategy, e, n) ==
    \/ strategy = "newest" /\ ~(e.mtime < n.mtime)
    \/ strategy = "oldest" /\ ~(e.mtime > n.mtime)
    \/ strategy = "largest" /\ ~(e.size < n.size)
    \/ strategy = "smallest" /\ ~(e.size > n.size)
C35_SkipIffOccupantExtreme ==
    \A e \in DOMAIN fs, n \in DOMAIN fs, s \in Comparison :
        e # n
        => resolve_duplicate_file(fs, e, n, s)
              = IF AtLeastAsExtreme(s, fs[e], fs[n]) THEN NoPath ELSE e
C35_Witness ==
    \E e \in DOMAIN fs, n \in DOMAIN fs :
        /\ e # n /\ pc = "run" /\ run.recurse /\ run.strategy \in Comparison
        /\ fs[e].kind = "file" /\ fs[n].kind = "file"
        /\ fs[e].size = fs[n].size
        /\ resolve_duplicate_file(fs, e, n, "largest") = NoPath
        /\ \E d \in DOMAIN fs :
              /\ fs[d].mtime < fs[n].mtime
              /\ resolve_duplicate_file(fs, d, n, "newest") = d
              /\ resolve_duplicate_file(fs, d, n, "oldest") = NoPath

\* C36: in a recursive flatten under a comparison strategy, a group of two or
\* more files of one name gets exactly one log entry: a move to root/name whose
\* chosen_from lists every file of the group; its source has the extreme value
\* of the strategy among them and, of those that share the extreme, is the one
\* enumerated first.
Measure(strategy, node) ==
    IF strategy \in {"newest", "oldest"} THEN node.mtime ELSE node.size
Beats(strategy, a, b) ==
    IF strategy \in {"newest", "largest"}
    THEN Measure(strategy, a) > Measure(strategy, b)
    ELSE Measure(strategy, a) < Measure(strategy, b)
NamedFiles(pre, n) == {p \in DOMAIN pre : pre[p].kind = "file" /\ BaseName(p) = n}
GroupEntry(pre, s, n, acts) ==
    LET group == NamedFiles(pre, n)
        mine == {k \in 1..Len(acts) :
                    acts[k].action # "delete_folder" /\ BaseName(acts[k].source) = n}
    IN /\ Cardinality(mine) = 1
       /\ \A k \in mine :
             LET e == acts[k]
                 pos(p) == CHOOSE i \in 1..Len(e.chosen_from) : e.chosen_from[i] = p
             IN /\ e.action = "move" /\ e.destination = <<n>> /\ e.strategy = s
                /\ Len(e.chosen_from) = Cardinality(group)
                /\ {e.chosen_from[i] : i \in 1..Len(e.chosen_from)} = group
                /\ e.source \in group
                /\ \A c \in group : ~Beats(s, pre[c], pre[e.source])
                /\ \A c \in group \ {e.source} :
                      Measure(s, pre[c]) = Measure(s, pre[e.source]) => pos(e.source) < pos(c)
C36_OneMoveOfTheWinner ==
    \A sec \in DOMAIN hist :
        (/\ hist[sec].run.op = "flatten" /\ hist[sec].run.recurse
         /\ hist[sec].run.strategy \in Comparison)
        => \A p \in DOMAIN hist[sec].run.pre :
              (/\ hist[sec].run.pre[p].kind = "file"
               /\ Cardinality(NamedFiles(hist[sec].run.pre, BaseName(p))) > 1)
              => GroupEntry(hist[sec].run.pre, hist[sec].run.strategy, BaseName(p),
                            hist[sec].content.actions)
C36_Witness ==
    \E sec \in DOMAIN hist :
        /\ hist[sec].run.op = "flatten" /\ hist[sec].run.recurse
        /\ hist[sec].run.strategy = "smallest" /\ scan = "rev"
        /\ Cardinality(NamedFiles(hist[sec].run.pre, NX)) = 2
        /\ \A p \in NamedFiles(hist[sec].run.pre, NX) : hist[sec].run.pre[p].size = 1
        /\ hist[sec].content.actions[1].source = hist[sec].content.actions[1].chosen_from[1]
        /\ hist[sec].content.actions[1].source = <<NB, NX>>

\* C37: in a recursive flatten under a comparison strategy, a file whose
\* metadata cannot be read when it is compared (with the occupant of its name
\* at the root, or within its group of same-named files) is placed as the
\* rename strategy places it, by a move or move_renamed onto a free name at the
\* root, and a warning is sent.
Compared(pre, p) ==
    /\ pre[p].kind = "file" /\ Len(p) >= 2
    /\ \/ Cardinality(NamedFiles(pre, BaseName(p))) > 1
       \/ Exists(pre, <<BaseName(p)>>)
Count(s, x) == Cardinality({i \in 1..Len(s) : s[i] = x})
C37_StatFailureFallsBack ==
    \A sec \in DOMAIN hist :
        (/\ pc = "idle" /\ hist[sec].run.op = "flatten" /\ hist[sec].run.recurse
         /\ hist[sec].run.strategy \in Comparison)
        => \A p \in DOMAIN hist[sec].run.pre :
              (Compared(hist[sec].run.pre, p) /\ StatFails(hist[sec].run.pre[p]))
              => /\ \E k \in 1..Len(hist[sec].content.actions) :
                       /\ hist[sec].content.actions[k].source = p
                       /\ hist[sec].content.actions[k].action \in {"move", "move_renamed"}
                       /\ Len(hist[sec].content.actions[k].destination) = 1
                       /\ k \notin hist[sec].failed
                 /\ Count(sink, "warning")
                       > Cardinality({k \in hist[sec].failed :
                                         hist[sec].content.actions[k].action = "delete_folder"})

\* C38: after a real recursive flatten under a comparison strategy, every file
\* of a group that was not chosen is gone: no log entry has it as source, it
\* is no longer in the tree, and its folder was removed by a delete_folder
\* entry of the run that did not fail.
Losers(acts) ==
    UNION {{acts[k].chosen_from[i] : i \in 1..Len(acts[k].chosen_from)} \ {acts[k].source} :
              k \in {j \in 1..Len(acts) : acts[j].action = "move"}}
C38_LosersDestroyed ==
    \A sec \in DOMAIN hist :
        (/\ hist[sec].run.op = "flatten" /\ hist[sec].run.recurse
         /\ ~hist[sec].run.simulate /\ hist[sec].run.strategy \in Comparison)
        => \A p \in Losers(hist[sec].content.actions) :
              /\ \A k \in 1..Len(hist[sec].content.actions) :
                    hist[sec].content.actions[k].source # p
              /\ ~Exists(hist[sec].post, p)
              /\ \E k \in 1..Len(hist[sec].content.actions) :
                    /\ hist[sec].content.actions[k].action = "delete_folder"
                    /\ hist[sec].content.actions[k].source = Parent(p)
                    /\ k \notin hist[sec].failed

\* C39: in a real one-level flatten with merge and without overwrite, once a
\* folder that meets a folder of its own name at the root has been handled,
\* every entry the occupant held is where it was and as it was, every
\* entry of the incoming folder is in the occupant, under its own name or, where
\* that name was taken, under a name derived from it, and the incoming folder
\* is gone.
RECURSIVE MergeWalk(_, _, _, _, _)
MergeWalk(st, r, dir, ts, q) ==
    IF q = << >> THEN st
    ELSE LET x == OneLevelItemOn(st, r, dir, ts, Head(q))
         IN MergeWalk(x.st, r, dir, ts, x.push \o Tail(q))
Meets(f, it) ==
    /\ it.t = "item" /\ IsDir(f, it.p)
    /\ <<BaseName(it.p)>> \in DOMAIN f /\ IsDir(f, <<BaseName(it.p)>>)
MovedAs(f, post, c, t) ==
    \A q \in Subtree(f, c) :
        Rebase(q, c, t) \in DOMAIN post /\ post[Rebase(q, c, t)] = f[q]
Merged(f, post, inc, occ) ==
    /\ ~Exists(post, inc)
    /\ \A p \in Subtree(f, occ) \ Subtree(f, inc) : p \in DOMAIN post /\ post[p] = f[p]
    /\ \A c \in Children(f, inc) :
          \E t \in Children(post, occ) \ DOMAIN f :
             /\ MovedAs(f, post, c, t)
             /\ IsPrefix(BaseName(c), BaseName(t))
             /\ Join(occ, BaseName(c)) \in DOMAIN f \/ t = Join(occ, BaseName(c))
    /\ Cardinality(Children(post, occ))
          = Cardinality(Children(f, occ) \ {inc}) + Cardinality(Children(f, inc))
C39_MergeKeepsBoth ==
    (/\ pc = "run" /\ OneLevelReal(run) /\ run.merge /\ ~run.overwrite
     /\ queue # << >> /\ Meets(fs, Head(queue)))
    => Merged(fs, MergeWalk(St, run, scan, now, <<Head(queue)>>).fs,
              Head(queue).p, <<BaseName(Head(queue).p)>>)
C39_Witness ==
    /\ pc = "run" /\ OneLevelReal(run) /\ run.merge /\ ~run.overwrite
    /\ \E k \in 1..Len(actions) :
          /\ actions[k].action = "move" /\ actions[k].source = <<NA, ND, NX>>
          /\ actions[k].destination = <<ND, NX1>>
    /\ \E k \in 1..Len(actions) :
          actions[k].action = "delete_folder" /\ actions[k].source = <<NA, ND>>
    /\ IsFile(fs, <<ND, NX>>) /\ IsFile(fs, <<ND, NX1>>) /\ ~Exists(fs, <<NA, ND>>)

\* C40: when revert_log replays a move or move_renamed entry whose rename
\* failed, or moved nothing, during the run that wrote the log, the entry found
\* at the recorded destination stays where it is.
NotMoved(h, k) ==
    /\ h.content.actions[k].action \in {"move", "move_renamed"}
    /\ \/ k \in h.failed
       \/ h.content.actions[k].source = h.content.actions[k].destination
ReplaysUnmoved ==
    /\ pc = "replay" /\ rv.i <= Len(rv.acts)
    /\ rv.log \in DOMAIN hist
    /\ ~hist[rv.log].run.simulate
    /\ rv.acts = Reverse(hist[rv.log].content.actions)
    /\ NotMoved(hist[rv.log], Len(rv.acts) - rv.i + 1)
C40_Step ==
    ReplaysUnmoved
    => \A p \in Subtree(fs, rv.acts[rv.i].destination) :
          p \in DOMAIN fs' /\ fs'[p] = fs[p]
C40_RevertOnlyWhatMoved == [][C40_Step]_vars

====
